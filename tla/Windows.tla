------------------------------ MODULE Windows ------------------------------
(* The browser windows of the web app (App.tsx, state/WalletSession.tsx,     *)
(* views/SignIn.tsx).  The address says which seat a window shows; a session *)
(* token, kept over reloads, says whom the backend takes it for; the keys of *)
(* the deal it reads are those of the epoch it was served when it loaded.    *)
(* The app signs a window in to the seat of its address by itself.  Logins   *)
(* are answered in any order, or fail.  A reset advances the backend's epoch *)
(* and is broadcast to the other windows, which reload.  A backend that is   *)
(* started again knows none of the tokens signed before.                     *)
EXTENDS Naturals, Sequences, SequencesExt

CONSTANTS
  Browsers,     \* the windows
  Visits,       \* bound: the seats each of them goes to
  MaxLogins,    \* bound: logins of a window under way at once
  MaxUpsets     \* bound: resets the backend carries out, and its restarts


VARIABLES
  win,         \* what each window holds
  served,      \* the epoch the backend serves
  secret,      \* the secret it signs tokens with, one for each start
  unannounced  \* history: an epoch was begun whose window could not broadcast it

winVars == <<win, served, secret, unannounced>>

Landing == "/"
Nobody == "nobody"
Idle == "idle"

ASSUME WindowsAssumption ==
  /\ MaxLogins \in Nat \ {0} /\ MaxUpsets \in Nat
  /\ \A w \in Browsers : Landing \notin Visits[w] /\ Nobody \notin Visits[w]

\* A token names a seat, and is good for the secret it was signed with.
NoToken == [seat |-> Nobody, secret |-> 0]
signSession(seat, k) == [seat |-> seat, secret |-> k]
verifySession(token) == IF token.secret = secret THEN token.seat ELSE Nobody

\* A page as it loads, at its address and with the token of its session.  Its
\* keys are 0 while they are those it was built with, the first epoch's.  Once
\* the backend is started again, it has outlived it (history).
Loaded(path, token) ==
  [path |-> path, token |-> token, phase |-> "registry", keys |-> 0, identity |-> Nobody, outlived |-> FALSE,
   signingIn |-> Nobody, logins |-> <<>>, leaving |-> FALSE, reset |-> Idle, mail |-> FALSE]

WindowsInit ==
  /\ win = [w \in Browsers |-> Loaded(Landing, NoToken)]
  /\ served = 1
  /\ secret = 1
  /\ unannounced = FALSE

\* Mutant: the page is rendered anew in place of a reload: what it loaded once
\* it does not load again.
reload_Soft(x) == [Loaded(x.path, x.token) EXCEPT !.keys = x.keys, !.phase = IF x.keys = 0 THEN "registry" ELSE "me"]

reload(x) == Loaded(x.path, x.token)

\* On a seat it is not signed in as, a window that is ready signs in.
Gate(x) ==
  IF x.phase = "ready" /\ x.path # Landing /\ x.identity # x.path /\ x.signingIn # x.path
  THEN [x EXCEPT !.signingIn = x.path, !.logins = Append(@, [seat |-> x.path, how |-> "auto", secret |-> secret])]
  ELSE x

\* A landing page that is left no longer waits for the seat it was entering.
Left(logins) == [i \in DOMAIN logins |-> IF logins[i].how = "enter" THEN [logins[i] EXCEPT !.how = "left"] ELSE logins[i]]
navigate(x, p) == [x EXCEPT !.path = p, !.logins = IF p = Landing THEN @ ELSE Left(@)]
busy(x) == \E i \in DOMAIN x.logins : x.logins[i].how = "enter"

Becomes(w, x) == win' = [win EXCEPT ![w] = Gate(x)]
Quietly(w, x) == Becomes(w, x) /\ UNCHANGED <<served, secret, unannounced>>

RegistryAnswers(w, ok) ==
  /\ win[w].phase = "registry"
  /\ Quietly(w, [win[w] EXCEPT !.phase = "me", !.keys = IF ok THEN served ELSE 0])
\* A token that is refused is dropped; one that could not be asked about stays.
MeAnswers(w, ok) ==
  /\ win[w].phase = "me"
  /\ LET who == verifySession(win[w].token) IN
       Quietly(w, IF ok THEN [win[w] EXCEPT !.phase = "ready", !.identity = who, !.token = IF who = Nobody THEN NoToken ELSE @]
                  ELSE [win[w] EXCEPT !.phase = "ready"])

\* Back and Forward.
Goes(w, p) ==
  /\ p # win[w].path
  /\ Len(win[w].logins) < MaxLogins
  /\ Quietly(w, navigate(win[w], p))
enter(w, seat) ==
  /\ win[w].phase = "ready" /\ win[w].path = Landing
  /\ ~busy(win[w])
  /\ Len(win[w].logins) < MaxLogins
  /\ Quietly(w, [win[w] EXCEPT !.logins = Append(@, [seat |-> seat, how |-> "enter", secret |-> secret])])

\* Whatever became of it, an automatic sign-in that has come to its end may be
\* tried again.
finally(x, login) ==
  IF login.how = "auto" /\ x.signingIn = login.seat THEN [x EXCEPT !.signingIn = Nobody] ELSE x
\* The answer may be of any start of the backend since the login was sent.
LoginAnswers(w, i, k) ==
  /\ i \in DOMAIN win[w].logins
  /\ k \in win[w].logins[i].secret .. secret
  /\ LET login == win[w].logins[i]
         x == [win[w] EXCEPT !.logins = RemoveAt(@, i), !.token = signSession(login.seat, k), !.identity = login.seat]
     IN Quietly(w, finally(IF login.how = "auto" THEN x ELSE navigate(x, login.seat), login))
LoginFails(w, i) ==
  /\ i \in DOMAIN win[w].logins
  /\ LET login == win[w].logins[i]
         x == [win[w] EXCEPT !.logins = RemoveAt(@, i)]
     IN Quietly(w, finally(IF login.how = "auto" THEN navigate(x, Landing) ELSE x, login))

\* The workspace dissolves first; what the window has come to show when the
\* session is dropped is left too.
onSignOut(w) ==
  /\ win[w].phase = "ready" /\ win[w].path # Landing /\ win[w].identity = win[w].path
  /\ ~win[w].leaving
  /\ Quietly(w, [win[w] EXCEPT !.leaving = TRUE])
signOut(w) ==
  /\ win[w].leaving
  /\ Quietly(w, navigate([win[w] EXCEPT !.token = NoToken, !.identity = Nobody, !.leaving = FALSE], Landing))

\* Bound: a window asks for one reset at a time.
askReset(w) ==
  /\ win[w].phase = "ready" /\ win[w].path = Landing
  /\ win[w].reset = Idle
  /\ Quietly(w, [win[w] EXCEPT !.reset = "asked"])
UpsetsLeft == served + secret < MaxUpsets + 2
BackendResets(w) ==
  /\ win[w].reset = "asked"
  /\ UpsetsLeft
  /\ served' = served + 1
  /\ win' = [win EXCEPT ![w].reset = "done"]
  /\ UNCHANGED <<secret, unannounced>>
\* The window tells the others, which does not reach itself, and reloads.
ResetAnswered(w) ==
  /\ win[w].reset = "done"
  /\ win' = [v \in Browsers |-> IF v = w THEN reload(win[v]) ELSE [win[v] EXCEPT !.mail = TRUE]]
  /\ UNCHANGED <<served, secret, unannounced>>
ResetFails(w) ==
  /\ win[w].reset # Idle
  /\ unannounced' = (unannounced \/ win[w].reset = "done")
  /\ win' = [win EXCEPT ![w].reset = Idle]
  /\ UNCHANGED <<served, secret>>

\* A page that is gone takes its requests with it.
Reloads(w) ==
  /\ unannounced' = (unannounced \/ win[w].reset = "done")
  /\ win' = [win EXCEPT ![w] = reload(win[w])]
  /\ UNCHANGED <<served, secret>>
MailArrives(w) == win[w].mail /\ Reloads(w)
UserReloads(w) == ~win[w].mail /\ Reloads(w)

\* The epoch is read from the ledger again; what may go wrong is DemoEpoch's.
BackendRestarts ==
  /\ UpsetsLeft
  /\ secret' = secret + 1
  /\ win' = [w \in Browsers |-> [win[w] EXCEPT !.outlived = TRUE]]
  /\ UNCHANGED <<served, unannounced>>

WindowStep == \E w \in Browsers :
  \/ \E ok \in BOOLEAN : RegistryAnswers(w, ok) \/ MeAnswers(w, ok)
  \/ \E p \in Visits[w] \cup {Landing} : Goes(w, p)
  \/ \E seat \in Visits[w] : enter(w, seat)
  \/ \E i \in 1 .. MaxLogins : (\E k \in 1 .. secret : LoginAnswers(w, i, k)) \/ LoginFails(w, i)
  \/ onSignOut(w)
  \/ signOut(w)
  \/ askReset(w)
  \/ BackendResets(w)
  \/ ResetAnswered(w)
  \/ ResetFails(w)
  \/ MailArrives(w)
  \/ UserReloads(w)

WindowsNext == WindowStep \/ BackendRestarts

WindowsTypeOK ==
  /\ served \in Nat \ {0} /\ secret \in Nat \ {0} /\ served + secret <= MaxUpsets + 2
  /\ \A w \in Browsers :
       /\ win[w].path \in Visits[w] \cup {Landing} /\ win[w].phase \in {"registry", "me", "ready"}
       /\ {win[w].token.seat, win[w].identity, win[w].signingIn} \subseteq Visits[w] \cup {Nobody}
       /\ Len(win[w].logins) <= MaxLogins /\ win[w].keys \in 0 .. served

\* A window takes itself for whom the backend takes it, unless the backend was
\* started again since it loaded; one on another seat's page has a sign-in to
\* that seat under way; and one that has loaded reads the epoch the backend
\* serves, or has a reload coming.  The exceptions are a registry that failed
\* and a reset whose answer was lost.
Current(w) ==
  \/ win[w].phase = "registry" \/ win[w].keys \in {0, served}
  \/ win[w].mail \/ unannounced
  \/ \E v \in Browsers : win[v].reset = "done"
WindowsAreCurrent == \A w \in Browsers :
  LET x == win[w] IN
  /\ x.identity \in {x.token.seat, Nobody}
  /\ x.identity # Nobody /\ ~x.outlived => verifySession(x.token) = x.identity
  /\ x.phase = "ready" /\ x.path \notin {Landing, x.identity} =>
       \E i \in DOMAIN x.logins : x.logins[i].seat = x.path /\ x.logins[i].how = "auto"
  /\ Current(w)
=============================================================================
