---------------------------- MODULE WindowsProofs ---------------------------
(* Theorems of Windows, for any number of windows, seats, logins, resets and *)
(* restarts of the backend.                                                  *)
EXTENDS Windows, DataTheorems

WindowsSpec == WindowsInit /\ [][WindowsNext]_winVars

Seat == UNION {Visits[w] : w \in Browsers}
Login == [seat : Seat, how : {"auto", "enter", "left"}, secret : Nat]
Window ==
  [path : Seat \cup {Landing}, token : [seat : Seat \cup {Nobody}, secret : Nat],
   phase : {"registry", "me", "ready"}, keys : Nat, identity : Seat \cup {Nobody}, outlived : BOOLEAN,
   signingIn : Seat \cup {Nobody}, logins : Seq(Login), leaving : BOOLEAN,
   reset : {Idle, "asked", "done"}, mail : BOOLEAN]

\* A window takes itself for nobody or for its token's seat.  One that has lived
\* through no restart holds, if it takes itself for somebody, a token of the present
\* secret, and its logins were sent to the backend that runs.
Faithful(x) ==
  /\ x.identity \in {x.token.seat, Nobody}
  /\ x.identity # Nobody /\ ~x.outlived => x.token.secret = secret
  /\ \A i \in DOMAIN x.logins : /\ x.logins[i].secret <= secret
                                /\ ~x.outlived => x.logins[i].secret = secret

\* A window that takes a sign-in for under way has one under way.
UnderWay(x, seat) == \E i \in DOMAIN x.logins : x.logins[i].seat = seat /\ x.logins[i].how = "auto"
SigningIn(x) == x.signingIn # Nobody => UnderWay(x, x.signingIn)

\* One that is ready, on another seat's page, has a sign-in to that seat under way.
OnItsWay(x) == x.phase = "ready" /\ x.path \notin {Landing, x.identity} => UnderWay(x, x.path)

WindowsTyped == win \in [Browsers -> Window] /\ served \in Nat /\ secret \in Nat \ {0}

WindowsInv ==
  /\ WindowsTyped
  /\ \A w \in Browsers : Faithful(win[w]) /\ SigningIn(win[w]) /\ OnItsWay(win[w]) /\ Current(w)

-----------------------------------------------------------------------------
(* Seats and logins *)

\* Neither the landing page nor nobody is a seat.
LEMMA SeatsAreSeats == Landing \notin Seat /\ Nobody \notin Seat
BY WindowsAssumption DEF Seat

\* Where a window may go, and whom it may sign in as, is a seat.
LEMMA VisitsAreSeats == \A w \in Browsers : Visits[w] \subseteq Seat
BY DEF Seat

\* Appending a login keeps those there are.
LEMMA AppendKeepsOthers ==
  ASSUME NEW S, NEW s \in Seq(S), NEW e \in S
  PROVE  /\ Append(s, e) \in Seq(S)
         /\ \A j \in DOMAIN Append(s, e) : Append(s, e)[j] = e \/ \E m \in DOMAIN s : Append(s, e)[j] = s[m]
         /\ \A m \in DOMAIN s : m \in DOMAIN Append(s, e) /\ Append(s, e)[m] = s[m]
         /\ \E j \in DOMAIN Append(s, e) : Append(s, e)[j] = e
<1>1. /\ Append(s, e) \in Seq(S) /\ Len(Append(s, e)) = Len(s) + 1
      /\ \A j \in 1..Len(s) : Append(s, e)[j] = s[j]
      /\ Append(s, e)[Len(s) + 1] = e
  BY AppendProperties
<1>2. DOMAIN s = 1..Len(s) /\ DOMAIN Append(s, e) = 1..(Len(s) + 1) /\ Len(s) \in Nat
  BY <1>1, LenProperties
<1>3. QED
  BY <1>1, <1>2

\* Leaving the landing page changes only what becomes of the logins it sent.
LEMMA LeftKeepsLogins ==
  ASSUME NEW s \in Seq(Login)
  PROVE  /\ Left(s) \in Seq(Login)
         /\ DOMAIN Left(s) = DOMAIN s
         /\ \A i \in DOMAIN s : /\ Left(s)[i].seat = s[i].seat /\ Left(s)[i].secret = s[i].secret
                                /\ s[i].how = "auto" => Left(s)[i].how = "auto"
<1>1. DOMAIN s = 1..Len(s) /\ Len(s) \in Nat /\ \A i \in DOMAIN s : s[i] \in Login
  BY LenProperties, ElementOfSeq
<1>2. \A i \in DOMAIN s : [s[i] EXCEPT !.how = "left"] \in Login
  BY <1>1 DEF Login
<1>3. Left(s) \in Seq(Login)
  <2>1. Left(s) \in [1..Len(s) -> Login]
    BY <1>1, <1>2 DEF Left
  <2>2. QED
    BY <1>1, <2>1
<1>4. \A i \in DOMAIN s : Left(s)[i] = IF s[i].how = "enter" THEN [s[i] EXCEPT !.how = "left"] ELSE s[i]
  BY DEF Left
<1>5. QED
  BY <1>1, <1>3, <1>4 DEF Left, Login

-----------------------------------------------------------------------------
(* Steps of one window *)

\* What a step prepares for a window before it looks whether to sign in.
AtSignIn(x) == x \in Window /\ Faithful(x) /\ SigningIn(x)

\* The gate signs a window in where it has to, and changes nothing else.
LEMMA GateSignsIn ==
  ASSUME WindowsTyped, NEW x, AtSignIn(x)
  PROVE  /\ Gate(x) \in Window /\ Faithful(Gate(x)) /\ SigningIn(Gate(x)) /\ OnItsWay(Gate(x))
         /\ Gate(x).phase = x.phase /\ Gate(x).keys = x.keys /\ Gate(x).mail = x.mail /\ Gate(x).reset = x.reset
<1> DEFINE due == x.phase = "ready" /\ x.path # Landing /\ x.identity # x.path /\ x.signingIn # x.path
           login == [seat |-> x.path, how |-> "auto", secret |-> secret]
           y == [x EXCEPT !.signingIn = x.path, !.logins = Append(x.logins, login)]
<1>1. x \in Window /\ x.logins \in Seq(Login) /\ x.path \in Seat \cup {Landing} /\ x.signingIn \in Seat \cup {Nobody}
  BY DEF AtSignIn, Window
<1>2. CASE ~due
  <2>1. Gate(x) = x
    BY <1>2 DEF Gate
  <2>2. OnItsWay(x)
    BY <1>1, <1>2, SeatsAreSeats DEF OnItsWay, AtSignIn, SigningIn
  <2>3. QED
    BY <2>1, <2>2 DEF AtSignIn
<1>3. CASE due
  <2>1. Gate(x) = y
    BY <1>3 DEF Gate
  <2>2. login \in Login /\ login.seat = x.path /\ login.how = "auto" /\ login.secret = secret
    BY <1>1, <1>3 DEF Login, WindowsTyped
  <2> HIDE DEF login
  <2>3. /\ Append(x.logins, login) \in Seq(Login)
        /\ \A j \in DOMAIN Append(x.logins, login) :
             \/ Append(x.logins, login)[j] = login
             \/ \E m \in DOMAIN x.logins : Append(x.logins, login)[j] = x.logins[m]
        /\ \E j \in DOMAIN Append(x.logins, login) : Append(x.logins, login)[j] = login
    BY <1>1, <2>2, AppendKeepsOthers
  <2> DEFINE logins == Append(x.logins, login)
  <2> HIDE DEF logins
  <2>4. /\ y \in Window /\ y.logins = logins /\ y.signingIn = x.path /\ y.path = x.path /\ y.identity = x.identity
        /\ y.token = x.token /\ y.outlived = x.outlived /\ y.phase = x.phase /\ y.keys = x.keys
        /\ y.mail = x.mail /\ y.reset = x.reset
    BY <1>1, <1>3, <2>3 DEF Window, logins
  <2>5. UnderWay(y, x.path)
    BY <2>2, <2>3, <2>4 DEF UnderWay, logins
  <2>6. Faithful(y)
    <3>1. ASSUME NEW j \in DOMAIN logins
          PROVE  logins[j].secret <= secret /\ (~x.outlived => logins[j].secret = secret)
      <4>1. CASE logins[j] = login
        BY <2>2, <4>1 DEF WindowsTyped
      <4>2. CASE \E m \in DOMAIN x.logins : logins[j] = x.logins[m]
        BY <4>2 DEF AtSignIn, Faithful
      <4>3. QED
        BY <2>3, <4>1, <4>2 DEF logins
    <3>2. QED
      BY <2>4, <3>1 DEF AtSignIn, Faithful
  <2>7. QED
    BY <2>1, <2>4, <2>5, <2>6 DEF SigningIn, OnItsWay
<1>4. QED
  BY <1>2, <1>3

\* A step of one window that is ready for the gate, in the epoch and with the secret
\* there are, keeps every window faithful and on its way.
LEMMA QuietStep ==
  ASSUME WindowsInv, NEW w \in Browsers, NEW x, AtSignIn(x), Quietly(w, x),
         x.phase = "registry" \/ x.keys \in {0, served} \/
           (win[w].phase # "registry" /\ x.keys = win[w].keys),
         x.mail = win[w].mail, win[w].reset = "done" => x.reset = "done"
  PROVE  WindowsInv'
<1>1. WindowsTyped
  BY DEF WindowsInv
<1>2. /\ win' = [win EXCEPT ![w] = Gate(x)] /\ UNCHANGED <<served, secret, unannounced>>
  BY DEF Quietly, Becomes
<1>3. /\ Gate(x) \in Window /\ Faithful(Gate(x)) /\ SigningIn(Gate(x)) /\ OnItsWay(Gate(x))
      /\ Gate(x).phase = x.phase /\ Gate(x).keys = x.keys /\ Gate(x).mail = x.mail /\ Gate(x).reset = x.reset
  BY <1>1, GateSignsIn
<1> DEFINE y == Gate(x)
<1>4. win'[w] = y /\ \A v \in Browsers : v # w => win'[v] = win[v]
  BY <1>1, <1>2 DEF WindowsTyped
<1> HIDE DEF y
<1>5. WindowsTyped'
  BY <1>1, <1>2, <1>3 DEF WindowsTyped
<1>6. ASSUME NEW v \in Browsers
      PROVE  (Faithful(win[v]) /\ SigningIn(win[v]) /\ OnItsWay(win[v]))'
  <2>1. Faithful(win'[v]) /\ SigningIn(win'[v]) /\ OnItsWay(win'[v])
    BY <1>3, <1>4 DEF WindowsInv, y
  <2>2. QED
    BY <1>2, <2>1 DEF Faithful, SigningIn, OnItsWay, UnderWay
<1>7. \A v \in Browsers : win[v].reset = "done" => win'[v].reset = "done"
  BY <1>3, <1>4 DEF y
<1>8. ASSUME NEW v \in Browsers
      PROVE  Current(v)'
  <2>1. CASE v = w
    BY <1>2, <1>3, <1>4, <1>7, <2>1 DEF WindowsInv, Current, y
  <2>2. CASE v # w
    BY <1>2, <1>4, <1>7, <2>2 DEF WindowsInv, Current
  <2>3. QED
    BY <2>1, <2>2
<1>9. QED
  BY <1>5, <1>6, <1>8 DEF WindowsInv

\* What a step leaves of a window beside its address, its session and its logins.
SameElsewhere(y, x) == y.phase = x.phase /\ y.keys = x.keys /\ y.mail = x.mail /\ y.reset = x.reset

\* Going somewhere keeps a window ready for the gate.
LEMMA NavigateKeepsReady ==
  ASSUME NEW x, AtSignIn(x), NEW p \in Seat \cup {Landing}
  PROVE  AtSignIn(navigate(x, p)) /\ SameElsewhere(navigate(x, p), x)
<1> DEFINE logins == IF p = Landing THEN x.logins ELSE Left(x.logins)
           y == [x EXCEPT !.path = p, !.logins = logins]
<1>1. x \in Window /\ x.logins \in Seq(Login)
  BY DEF AtSignIn, Window
<1>2. /\ logins \in Seq(Login) /\ DOMAIN logins = DOMAIN x.logins
      /\ \A i \in DOMAIN x.logins : /\ logins[i].seat = x.logins[i].seat /\ logins[i].secret = x.logins[i].secret
                                    /\ x.logins[i].how = "auto" => logins[i].how = "auto"
  BY <1>1, LeftKeepsLogins
<1>3. navigate(x, p) = y
  BY DEF navigate
<1> HIDE DEF logins
<1>4. /\ y \in Window /\ y.logins = logins /\ y.signingIn = x.signingIn /\ y.identity = x.identity
      /\ y.token = x.token /\ y.outlived = x.outlived /\ SameElsewhere(y, x)
  BY <1>1, <1>2 DEF Window, SameElsewhere
<1> HIDE DEF y
<1>5. Faithful(y) /\ SigningIn(y)
  BY <1>2, <1>4 DEF AtSignIn, Faithful, SigningIn, UnderWay
<1>6. QED
  BY <1>3, <1>4, <1>5 DEF AtSignIn

\* A window whose sign-in has come to its end may still take it for under way ...
MaySignIn(x, login) ==
  x.signingIn # Nobody => UnderWay(x, x.signingIn) \/ (login.how = "auto" /\ login.seat = x.signingIn)

\* ... until that is put right.
LEMMA FinallyReady ==
  ASSUME NEW x \in Window, Faithful(x), NEW login, MaySignIn(x, login)
  PROVE  AtSignIn(finally(x, login)) /\ SameElsewhere(finally(x, login), x)
<1> DEFINE y == [x EXCEPT !.signingIn = Nobody]
<1>1. CASE login.how = "auto" /\ x.signingIn = login.seat
  <2>1. finally(x, login) = y
    BY <1>1 DEF finally
  <2>2. /\ y \in Window /\ y.logins = x.logins /\ y.signingIn = Nobody /\ y.identity = x.identity
        /\ y.token = x.token /\ y.outlived = x.outlived /\ SameElsewhere(y, x)
    BY DEF Window, SameElsewhere
  <2>3. QED
    BY <2>1, <2>2 DEF AtSignIn, Faithful, SigningIn
<1>2. CASE ~(login.how = "auto" /\ x.signingIn = login.seat)
  <2>1. finally(x, login) = x
    BY <1>2 DEF finally
  <2>2. QED
    BY <1>2, <2>1 DEF AtSignIn, SigningIn, MaySignIn, SameElsewhere
<1>3. QED
  BY <1>1, <1>2

\* Without one of its logins a window is as it was, but for that sign-in.
LEMMA WithoutLogin ==
  ASSUME NEW x, AtSignIn(x), NEW i \in DOMAIN x.logins
  PROVE  LET y == [x EXCEPT !.logins = RemoveAt(@, i)] IN
         /\ y \in Window /\ Faithful(y) /\ MaySignIn(y, x.logins[i]) /\ SameElsewhere(y, x)
         /\ x.logins[i] \in Login /\ y.outlived = x.outlived
         /\ x.logins[i].secret <= secret /\ (~x.outlived => x.logins[i].secret = secret)
         /\ \A j \in DOMAIN y.logins : /\ y.logins[j].secret <= secret
                                       /\ ~y.outlived => y.logins[j].secret = secret
<1> DEFINE logins == RemoveAt(x.logins, i)
           y == [x EXCEPT !.logins = logins]
<1>1. x \in Window /\ x.logins \in Seq(Login) /\ x.logins[i] \in Login
  BY ElementOfSeq, LenProperties DEF AtSignIn, Window
<1>2. /\ logins \in Seq(Login)
      /\ \A j \in DOMAIN logins : \E m \in DOMAIN x.logins : logins[j] = x.logins[m]
      /\ \A m \in DOMAIN x.logins : m # i => \E j \in DOMAIN logins : logins[j] = x.logins[m]
  BY <1>1, RemoveAtKeepsOthers
<1> HIDE DEF logins
<1>3. /\ y \in Window /\ y.logins = logins /\ y.signingIn = x.signingIn /\ y.identity = x.identity
      /\ y.token = x.token /\ y.outlived = x.outlived /\ SameElsewhere(y, x)
  BY <1>1, <1>2 DEF Window, SameElsewhere
<1> HIDE DEF y
<1>4. \A j \in DOMAIN logins : logins[j].secret <= secret /\ (~x.outlived => logins[j].secret = secret)
  BY <1>2 DEF AtSignIn, Faithful
<1>5. Faithful(y)
  BY <1>3, <1>4 DEF AtSignIn, Faithful
<1>6. MaySignIn(y, x.logins[i])
  <2>1. SUFFICES ASSUME x.signingIn # Nobody
                 PROVE  \/ UnderWay(y, x.signingIn)
                        \/ x.logins[i].how = "auto" /\ x.logins[i].seat = x.signingIn
    BY <1>3 DEF MaySignIn
  <2>2. PICK m \in DOMAIN x.logins : x.logins[m].seat = x.signingIn /\ x.logins[m].how = "auto"
    BY <2>1 DEF AtSignIn, SigningIn, UnderWay
  <2>3. CASE m = i
    BY <2>2, <2>3
  <2>4. CASE m # i
    BY <1>2, <1>3, <2>2, <2>4 DEF UnderWay
  <2>5. QED
    BY <2>3, <2>4
<1>7. x.logins[i].secret <= secret /\ (~x.outlived => x.logins[i].secret = secret)
  BY DEF AtSignIn, Faithful
<1>8. QED
  BY <1>1, <1>3, <1>4, <1>5, <1>6, <1>7 DEF y, logins

-----------------------------------------------------------------------------
(* The invariant *)

\* In the invariant a window is ready for the gate.
LEMMA WindowsAreReady == WindowsInv => \A w \in Browsers : AtSignIn(win[w])
BY DEF WindowsInv, WindowsTyped, AtSignIn

\* The answer to a login, whichever start of the backend gave it, keeps the invariant.
LEMMA LoginAnswersStep ==
  ASSUME WindowsInv, NEW w \in Browsers, NEW i \in 1..MaxLogins, NEW k \in 1..secret, LoginAnswers(w, i, k)
  PROVE  WindowsInv'
<1> DEFINE login == win[w].logins[i]
           z == [win[w] EXCEPT !.logins = RemoveAt(@, i)]
           x == [win[w] EXCEPT !.logins = RemoveAt(@, i), !.token = signSession(login.seat, k), !.identity = login.seat]
           y == IF login.how = "auto" THEN x ELSE navigate(x, login.seat)
<1>1. i \in DOMAIN win[w].logins /\ k \in login.secret .. secret /\ Quietly(w, finally(y, login))
  BY DEF LoginAnswers
<1>2. AtSignIn(win[w]) /\ win[w] \in Window /\ secret \in Nat
  BY WindowsAreReady DEF WindowsInv, WindowsTyped
<1>3. /\ z \in Window /\ Faithful(z) /\ MaySignIn(z, login) /\ SameElsewhere(z, win[w])
      /\ login \in Login /\ z.outlived = win[w].outlived
      /\ login.secret <= secret /\ (~win[w].outlived => login.secret = secret)
      /\ \A j \in DOMAIN z.logins : /\ z.logins[j].secret <= secret
                                    /\ ~z.outlived => z.logins[j].secret = secret
  BY <1>1, <1>2, WithoutLogin
<1> DEFINE token == [seat |-> login.seat, secret |-> k]
<1>4. x = [z EXCEPT !.token = token, !.identity = login.seat]
  BY DEF signSession
<1>5. /\ login.seat \in Seat /\ login.secret \in Nat /\ k \in Nat
      /\ token \in [seat : Seat \cup {Nobody}, secret : Nat] /\ token.seat = login.seat /\ token.secret = k
  BY <1>2, <1>3 DEF Login
<1> HIDE DEF login, z, x, token
<1>6. /\ x \in Window /\ x.token = token /\ x.identity = login.seat
      /\ x.logins = z.logins /\ x.signingIn = z.signingIn /\ x.outlived = z.outlived /\ SameElsewhere(x, z)
  <2> HIDE DEF y
  <2>1. z \in Window /\ login.seat \in Seat \cup {Nobody}
    BY <1>3, <1>5
  <2>2. QED
    BY <1>4, <1>5, <2>1 DEF Window, SameElsewhere
<1>7. ~x.outlived => k = secret
  BY <1>1, <1>2, <1>3, <1>5, <1>6
<1>8. Faithful(x) /\ MaySignIn(x, login)
  BY <1>3, <1>5, <1>6, <1>7 DEF Faithful, MaySignIn, UnderWay
<1>9. AtSignIn(finally(y, login)) /\ SameElsewhere(finally(y, login), x)
  <2>1. CASE login.how = "auto"
    BY <1>6, <1>8, <2>1, FinallyReady
  <2>2. CASE login.how # "auto"
    <3>1. AtSignIn(x)
      BY <1>6, <1>8, <2>2 DEF AtSignIn, MaySignIn, SigningIn
    <3>2. AtSignIn(navigate(x, login.seat)) /\ SameElsewhere(navigate(x, login.seat), x)
      BY <1>5, <3>1, NavigateKeepsReady
    <3>3. y = navigate(x, login.seat)
      BY <2>2
    <3>4. y \in Window /\ Faithful(y) /\ MaySignIn(y, login)
      BY <3>2, <3>3 DEF AtSignIn, MaySignIn, SigningIn
    <3>5. QED
      BY <3>2, <3>3, <3>4, FinallyReady DEF SameElsewhere
  <2>3. QED
    BY <2>1, <2>2
<1>10. SameElsewhere(finally(y, login), win[w])
  BY <1>3, <1>6, <1>9 DEF SameElsewhere
<1> HIDE DEF y
<1>11. QED
  BY <1>1, <1>9, <1>10, QuietStep DEF SameElsewhere, WindowsInv, Current

\* And so does a login that fails.
LEMMA LoginFailsStep ==
  ASSUME WindowsInv, NEW w \in Browsers, NEW i \in 1..MaxLogins, LoginFails(w, i)
  PROVE  WindowsInv'
<1> DEFINE login == win[w].logins[i]
           x == [win[w] EXCEPT !.logins = RemoveAt(@, i)]
           y == IF login.how = "auto" THEN navigate(x, Landing) ELSE x
<1>1. i \in DOMAIN win[w].logins /\ Quietly(w, finally(y, login))
  BY DEF LoginFails
<1>2. AtSignIn(win[w])
  BY WindowsAreReady
<1>3. x \in Window /\ Faithful(x) /\ MaySignIn(x, login) /\ SameElsewhere(x, win[w])
  BY <1>1, <1>2, WithoutLogin
<1> HIDE DEF login, x
<1> DEFINE u == [x EXCEPT !.path = Landing, !.logins = x.logins]
<1>4. navigate(x, Landing) = u
  BY DEF navigate
<1>5. /\ navigate(x, Landing) \in Window /\ Faithful(navigate(x, Landing)) /\ MaySignIn(navigate(x, Landing), login)
      /\ SameElsewhere(navigate(x, Landing), x)
  <2> HIDE DEF y
  <2>1. /\ u \in Window /\ u.logins = x.logins /\ u.signingIn = x.signingIn /\ u.identity = x.identity
        /\ u.token = x.token /\ u.outlived = x.outlived /\ SameElsewhere(u, x)
    BY <1>3 DEF Window, SameElsewhere
  <2> HIDE DEF u
  <2>2. Faithful(u) /\ MaySignIn(u, login)
    BY <1>3, <2>1 DEF Faithful, MaySignIn, UnderWay
  <2>3. QED
    BY <1>4, <2>1, <2>2
<1>6. y \in Window /\ Faithful(y) /\ MaySignIn(y, login) /\ SameElsewhere(y, win[w])
  BY <1>3, <1>5 DEF SameElsewhere
<1> HIDE DEF y
<1>7. AtSignIn(finally(y, login)) /\ SameElsewhere(finally(y, login), win[w])
  BY <1>6, FinallyReady DEF SameElsewhere
<1>8. QED
  BY <1>1, <1>7, QuietStep DEF SameElsewhere, WindowsInv, Current

\* A registry that answers, or fails, keeps the invariant.
LEMMA RegistryStep ==
  ASSUME WindowsInv, NEW w \in Browsers, NEW ok \in BOOLEAN, RegistryAnswers(w, ok)
  PROVE  WindowsInv'
<1> DEFINE keys == IF ok THEN served ELSE 0
           x == [win[w] EXCEPT !.phase = "me", !.keys = keys]
<1>1. Quietly(w, x)
  BY DEF RegistryAnswers
<1>2. AtSignIn(win[w]) /\ keys \in Nat /\ keys \in {0, served}
  BY WindowsAreReady DEF WindowsInv, WindowsTyped
<1> HIDE DEF keys
<1>3. /\ x \in Window /\ x.keys = keys /\ x.logins = win[w].logins /\ x.signingIn = win[w].signingIn
      /\ x.identity = win[w].identity /\ x.token = win[w].token /\ x.outlived = win[w].outlived
      /\ x.mail = win[w].mail /\ x.reset = win[w].reset
  BY <1>2 DEF AtSignIn, Window
<1> HIDE DEF x
<1>4. AtSignIn(x)
  BY <1>2, <1>3 DEF AtSignIn, Faithful, SigningIn, UnderWay
<1>5. QED
  BY <1>1, <1>2, <1>3, <1>4, QuietStep

\* So does the answer to who the token is for: what the backend says is what the
\* window then takes itself for.
LEMMA MeStep ==
  ASSUME WindowsInv, NEW w \in Browsers, NEW ok \in BOOLEAN, MeAnswers(w, ok)
  PROVE  WindowsInv'
<1> DEFINE who == verifySession(win[w].token)
           token == IF who = Nobody THEN NoToken ELSE win[w].token
           x == [win[w] EXCEPT !.phase = "ready", !.identity = who, !.token = token]
           y == [win[w] EXCEPT !.phase = "ready"]
<1>1. win[w].phase = "me" /\ Quietly(w, IF ok THEN x ELSE y)
  BY DEF MeAnswers
<1>2. AtSignIn(win[w]) /\ win[w] \in Window
  BY WindowsAreReady DEF AtSignIn
<1>3. win[w].token.seat \in Seat \cup {Nobody} /\ win[w].token \in [seat : Seat \cup {Nobody}, secret : Nat]
  BY <1>2 DEF Window
<1>4. /\ who \in Seat \cup {Nobody} /\ token \in [seat : Seat \cup {Nobody}, secret : Nat]
      /\ who \in {token.seat, Nobody} /\ (who # Nobody => token.secret = secret)
  <2>1. CASE who = Nobody
    BY <2>1 DEF NoToken
  <2>2. CASE who # Nobody
    BY <1>3, <2>2 DEF verifySession
  <2>3. QED
    BY <2>1, <2>2
<1> HIDE DEF who, token
<1>5. /\ x \in Window /\ x.phase = "ready" /\ x.identity = who /\ x.token = token
      /\ x.logins = win[w].logins /\ x.signingIn = win[w].signingIn /\ x.outlived = win[w].outlived
      /\ x.keys = win[w].keys /\ x.mail = win[w].mail /\ x.reset = win[w].reset
  BY <1>2, <1>4 DEF Window
<1>6. /\ y \in Window /\ y.phase = "ready" /\ y.identity = win[w].identity /\ y.token = win[w].token
      /\ y.logins = win[w].logins /\ y.signingIn = win[w].signingIn /\ y.outlived = win[w].outlived
      /\ y.keys = win[w].keys /\ y.mail = win[w].mail /\ y.reset = win[w].reset
  BY <1>2 DEF Window
<1> HIDE DEF x, y
<1>7. AtSignIn(x)
  BY <1>2, <1>4, <1>5 DEF AtSignIn, Faithful, SigningIn, UnderWay
<1>8. AtSignIn(y)
  BY <1>2, <1>6 DEF AtSignIn, Faithful, SigningIn, UnderWay
<1>9. CASE ok
  BY <1>1, <1>5, <1>7, <1>9, QuietStep
<1>10. CASE ~ok
  BY <1>1, <1>6, <1>8, <1>10, QuietStep
<1>11. QED
  BY <1>9, <1>10

\* A step that leaves a window's page as it is, but for its address, its session and
\* its logins, keeps the invariant.
LEMMA SamePageStep ==
  ASSUME WindowsInv, NEW w \in Browsers, NEW x, AtSignIn(x), SameElsewhere(x, win[w]), Quietly(w, x)
  PROVE  WindowsInv'
<1>1. CASE x.phase = "registry"
  BY <1>1, QuietStep DEF SameElsewhere
<1>2. CASE x.phase # "registry"
  BY <1>2, QuietStep DEF SameElsewhere
<1>3. QED
  BY <1>1, <1>2

\* Back and Forward keep the invariant.
LEMMA GoesStep ==
  ASSUME WindowsInv, NEW w \in Browsers, NEW p \in Visits[w] \cup {Landing}, Goes(w, p)
  PROVE  WindowsInv'
<1>1. AtSignIn(win[w]) /\ p \in Seat \cup {Landing}
  BY WindowsAreReady, VisitsAreSeats
<1>2. AtSignIn(navigate(win[w], p)) /\ SameElsewhere(navigate(win[w], p), win[w])
  BY <1>1, NavigateKeepsReady
<1>3. QED
  BY <1>2, SamePageStep DEF Goes

\* A seat entered from the landing page sends a login and changes nothing else yet.
LEMMA EnterStep ==
  ASSUME WindowsInv, NEW w \in Browsers, NEW seat \in Visits[w], enter(w, seat)
  PROVE  WindowsInv'
<1> DEFINE login == [seat |-> seat, how |-> "enter", secret |-> secret]
           logins == Append(win[w].logins, login)
           x == [win[w] EXCEPT !.logins = logins]
<1>1. Quietly(w, x)
  BY DEF enter
<1>2. AtSignIn(win[w]) /\ win[w] \in Window /\ win[w].logins \in Seq(Login) /\ secret \in Nat
  BY WindowsAreReady DEF AtSignIn, Window, WindowsInv, WindowsTyped
<1>3. login \in Login /\ login.secret = secret
  BY <1>2, VisitsAreSeats DEF Login
<1> HIDE DEF login
<1>4. /\ logins \in Seq(Login)
      /\ \A j \in DOMAIN logins : logins[j] = login \/ \E m \in DOMAIN win[w].logins : logins[j] = win[w].logins[m]
      /\ \A m \in DOMAIN win[w].logins : m \in DOMAIN logins /\ logins[m] = win[w].logins[m]
  BY <1>2, <1>3, AppendKeepsOthers
<1> HIDE DEF logins
<1>5. /\ x \in Window /\ x.logins = logins /\ x.signingIn = win[w].signingIn /\ x.identity = win[w].identity
      /\ x.token = win[w].token /\ x.outlived = win[w].outlived /\ SameElsewhere(x, win[w])
  BY <1>2, <1>4 DEF Window, SameElsewhere
<1> HIDE DEF x
<1>6. \A j \in DOMAIN logins : logins[j].secret <= secret /\ (~x.outlived => logins[j].secret = secret)
  <2>1. SUFFICES ASSUME NEW j \in DOMAIN logins
                 PROVE  logins[j].secret <= secret /\ (~x.outlived => logins[j].secret = secret)
    OBVIOUS
  <2>2. CASE logins[j] = login
    BY <1>2, <1>3, <2>2
  <2>3. CASE \E m \in DOMAIN win[w].logins : logins[j] = win[w].logins[m]
    BY <1>2, <1>5, <2>3 DEF AtSignIn, Faithful
  <2>4. QED
    BY <1>4, <2>2, <2>3
<1>7. Faithful(x)
  BY <1>2, <1>5, <1>6 DEF AtSignIn, Faithful
<1>8. SigningIn(x)
  BY <1>2, <1>4, <1>5 DEF AtSignIn, SigningIn, UnderWay
<1>9. QED
  BY <1>1, <1>5, <1>7, <1>8, SamePageStep DEF AtSignIn

\* Signing out, in its two steps, keeps the invariant.
LEMMA LeavingStep ==
  ASSUME WindowsInv, NEW w \in Browsers, onSignOut(w) \/ signOut(w)
  PROVE  WindowsInv'
<1>1. AtSignIn(win[w]) /\ win[w] \in Window
  BY WindowsAreReady DEF AtSignIn
<1>2. CASE onSignOut(w)
  <2> DEFINE x == [win[w] EXCEPT !.leaving = TRUE]
  <2>1. Quietly(w, x)
    BY <1>2 DEF onSignOut
  <2>2. /\ x \in Window /\ x.logins = win[w].logins /\ x.signingIn = win[w].signingIn /\ x.identity = win[w].identity
        /\ x.token = win[w].token /\ x.outlived = win[w].outlived /\ SameElsewhere(x, win[w])
    BY <1>1 DEF Window, SameElsewhere
  <2> HIDE DEF x
  <2>3. AtSignIn(x)
    BY <1>1, <2>2 DEF AtSignIn, Faithful, SigningIn, UnderWay
  <2>4. QED
    BY <2>1, <2>2, <2>3, SamePageStep
<1>3. CASE signOut(w)
  <2> DEFINE x == [win[w] EXCEPT !.token = NoToken, !.identity = Nobody, !.leaving = FALSE]
  <2>1. Quietly(w, navigate(x, Landing))
    BY <1>3 DEF signOut
  <2>2. /\ x \in Window /\ x.logins = win[w].logins /\ x.signingIn = win[w].signingIn /\ x.identity = Nobody
        /\ x.outlived = win[w].outlived /\ SameElsewhere(x, win[w])
    <3>1. NoToken \in [seat : Seat \cup {Nobody}, secret : Nat]
      BY DEF NoToken
    <3> HIDE DEF NoToken
    <3>2. QED
      BY <1>1, <3>1 DEF Window, SameElsewhere
  <2> HIDE DEF x
  <2>3. AtSignIn(x)
    BY <1>1, <2>2 DEF AtSignIn, Faithful, SigningIn, UnderWay
  <2>4. AtSignIn(navigate(x, Landing)) /\ SameElsewhere(navigate(x, Landing), x)
    BY <2>3, NavigateKeepsReady
  <2>5. SameElsewhere(navigate(x, Landing), win[w])
    BY <2>2, <2>4 DEF SameElsewhere
  <2>6. QED
    BY <2>1, <2>4, <2>5, SamePageStep
<1>4. QED
  BY <1>2, <1>3

\* Asking for a reset keeps the invariant.
LEMMA AskStep ==
  ASSUME WindowsInv, NEW w \in Browsers, askReset(w)
  PROVE  WindowsInv'
<1> DEFINE x == [win[w] EXCEPT !.reset = "asked"]
<1>1. Quietly(w, x) /\ win[w].reset = Idle /\ win[w].phase = "ready"
  BY DEF askReset
<1>2. AtSignIn(win[w]) /\ win[w] \in Window
  BY WindowsAreReady DEF AtSignIn
<1>3. /\ x \in Window /\ x.logins = win[w].logins /\ x.signingIn = win[w].signingIn /\ x.identity = win[w].identity
      /\ x.token = win[w].token /\ x.outlived = win[w].outlived
      /\ x.keys = win[w].keys /\ x.mail = win[w].mail
  BY <1>2 DEF Window
<1> HIDE DEF x
<1>4. AtSignIn(x)
  BY <1>2, <1>3 DEF AtSignIn, Faithful, SigningIn, UnderWay
<1>5. win[w].reset # "done" /\ win[w].phase # "registry"
  BY <1>1 DEF Idle
<1>6. QED
  BY <1>1, <1>3, <1>4, <1>5, QuietStep

-----------------------------------------------------------------------------
(* Steps of several windows and of the backend *)

Rightly(x) == x \in Window /\ Faithful(x) /\ SigningIn(x) /\ OnItsWay(x)

\* A page as it loads is nobody yet, whatever its token, and waits for nothing.
LEMMA LoadedIsRight ==
  ASSUME NEW x \in Window
  PROVE  Rightly(reload(x)) /\ reload(x).phase = "registry" /\ reload(x).reset = Idle
<1>1. x.path \in Seat \cup {Landing} /\ x.token \in [seat : Seat \cup {Nobody}, secret : Nat]
  BY DEF Window
<1>2. <<>> \in Seq(Login) /\ DOMAIN <<>> = {}
  OBVIOUS
<1> DEFINE y == Loaded(x.path, x.token)
<1>3. /\ y \in Window /\ y.logins = <<>> /\ y.signingIn = Nobody /\ y.identity = Nobody
      /\ y.phase = "registry" /\ y.reset = Idle
  BY <1>1, <1>2 DEF Loaded, Window
<1>4. reload(x) = y
  BY DEF reload
<1> HIDE DEF y
<1>5. Faithful(y) /\ SigningIn(y) /\ OnItsWay(y)
  BY <1>2, <1>3 DEF Faithful, SigningIn, OnItsWay
<1>6. QED
  BY <1>3, <1>4, <1>5 DEF Rightly

\* What a window waits for from a reset is nothing to its session ...
LEMMA ResetIsApart ==
  ASSUME NEW x, Rightly(x), NEW r \in {Idle, "asked", "done"}, NEW y, y = [x EXCEPT !.reset = r]
  PROVE  Rightly(y) /\ y.reset = r /\ y.phase = x.phase /\ y.keys = x.keys /\ y.mail = x.mail
<1>1. x \in Window
  BY DEF Rightly
<1>2. /\ y \in Window /\ y.logins = x.logins /\ y.signingIn = x.signingIn /\ y.identity = x.identity /\ y.path = x.path
      /\ y.token = x.token /\ y.outlived = x.outlived /\ y.phase = x.phase /\ y.keys = x.keys /\ y.mail = x.mail
      /\ y.reset = r
  BY <1>1 DEF Window
<1>3. QED
  BY <1>2 DEF Rightly, Faithful, SigningIn, OnItsWay, UnderWay

\* ... nor is that it has to reload.
LEMMA MailIsApart ==
  ASSUME NEW x, Rightly(x), NEW y, y = [x EXCEPT !.mail = TRUE]
  PROVE  Rightly(y) /\ y.mail
<1>1. x \in Window
  BY DEF Rightly
<1>2. /\ y \in Window /\ y.logins = x.logins /\ y.signingIn = x.signingIn /\ y.identity = x.identity /\ y.path = x.path
      /\ y.token = x.token /\ y.outlived = x.outlived /\ y.phase = x.phase /\ y.mail
  BY <1>1 DEF Window
<1>3. QED
  BY <1>2 DEF Rightly, Faithful, SigningIn, OnItsWay, UnderWay

\* Under the same secret, windows that are right and current are the invariant.
LEMMA RightAndCurrent ==
  ASSUME WindowsInv, secret' = secret, served' \in Nat, NEW f, win' = [v \in Browsers |-> f[v]],
         \A v \in Browsers : Rightly(f[v]) /\ Current(v)'
  PROVE  WindowsInv'
<1>1. \A v \in Browsers : win'[v] = f[v] /\ f[v] \in Window
  BY DEF Rightly
<1>2. WindowsTyped'
  BY <1>1 DEF WindowsInv, WindowsTyped
<1>3. ASSUME NEW v \in Browsers
      PROVE  (Faithful(win[v]) /\ SigningIn(win[v]) /\ OnItsWay(win[v]))'
  <2>1. Faithful(win'[v]) /\ SigningIn(win'[v]) /\ OnItsWay(win'[v])
    BY <1>1 DEF Rightly
  <2>2. QED
    BY <2>1 DEF Faithful, SigningIn, OnItsWay, UnderWay
<1>4. QED
  BY <1>2, <1>3 DEF WindowsInv

\* A reset the backend carries out makes every window's keys stale, and has the one
\* that asked for it tell the others.
LEMMA BackendResetsStep ==
  ASSUME WindowsInv, NEW w \in Browsers, BackendResets(w)
  PROVE  WindowsInv'
<1> DEFINE f == [win EXCEPT ![w].reset = "done"]
<1>1. win' = f /\ secret' = secret /\ served' = served + 1
  BY DEF BackendResets
<1>2. win \in [Browsers -> Window] /\ \A v \in Browsers : Rightly(win[v])
  BY DEF WindowsInv, WindowsTyped, Rightly
<1>3. f = [v \in Browsers |-> f[v]] /\ f[w] = [win[w] EXCEPT !.reset = "done"] /\ \A v \in Browsers : v # w => f[v] = win[v]
  BY <1>2
<1> HIDE DEF f
<1>4. Rightly(f[w]) /\ f[w].reset = "done"
  <2>1. Rightly(win[w]) /\ "done" \in {Idle, "asked", "done"}
    BY <1>2
  <2>2. QED
    BY <1>3, <2>1, ResetIsApart
<1>5. \A v \in Browsers : Rightly(f[v]) /\ Current(v)'
  BY <1>1, <1>2, <1>3, <1>4 DEF Current
<1>6. served' \in Nat
  BY <1>1 DEF WindowsInv, WindowsTyped
<1>7. QED
  BY <1>1, <1>3, <1>5, <1>6, RightAndCurrent

\* The window that had the epoch reset tells all the others before it reloads.
LEMMA ResetAnsweredStep ==
  ASSUME WindowsInv, NEW w \in Browsers, ResetAnswered(w)
  PROVE  WindowsInv'
<1> DEFINE f == [v \in Browsers |-> IF v = w THEN reload(win[v]) ELSE [win[v] EXCEPT !.mail = TRUE]]
<1>1. win' = f /\ secret' = secret /\ served' = served
  BY DEF ResetAnswered
<1>2. \A v \in Browsers : win[v] \in Window /\ Rightly(win[v])
  BY DEF WindowsInv, WindowsTyped, Rightly
<1>3. /\ f = [v \in Browsers |-> f[v]] /\ f[w] = reload(win[w])
      /\ \A v \in Browsers : v # w => f[v] = [win[v] EXCEPT !.mail = TRUE]
  OBVIOUS
<1> HIDE DEF f
<1>4. Rightly(f[w]) /\ f[w].phase = "registry"
  BY <1>2, <1>3, LoadedIsRight
<1>5. \A v \in Browsers : v # w => Rightly(f[v]) /\ f[v].mail
  BY <1>2, <1>3, MailIsApart
<1>6. \A v \in Browsers : Rightly(f[v]) /\ Current(v)'
  BY <1>1, <1>4, <1>5 DEF Current
<1>7. QED
  BY <1>1, <1>3, <1>6, RightAndCurrent DEF WindowsInv, WindowsTyped

\* A reset whose answer is lost leaves the others with nobody to tell them.
LEMMA ResetFailsStep ==
  ASSUME WindowsInv, NEW w \in Browsers, ResetFails(w)
  PROVE  WindowsInv'
<1> DEFINE f == [win EXCEPT ![w].reset = Idle]
<1>1. win' = f /\ secret' = secret /\ served' = served /\ unannounced' = (unannounced \/ win[w].reset = "done")
  BY DEF ResetFails
<1>2. win \in [Browsers -> Window] /\ \A v \in Browsers : Rightly(win[v])
  BY DEF WindowsInv, WindowsTyped, Rightly
<1>3. f = [v \in Browsers |-> f[v]] /\ f[w] = [win[w] EXCEPT !.reset = Idle] /\ \A v \in Browsers : v # w => f[v] = win[v]
  BY <1>2
<1> HIDE DEF f
<1>4. Rightly(f[w]) /\ f[w].phase = win[w].phase /\ f[w].keys = win[w].keys /\ f[w].mail = win[w].mail
  <2>1. Rightly(win[w]) /\ Idle \in {Idle, "asked", "done"}
    BY <1>2
  <2>2. QED
    BY <1>3, <2>1, ResetIsApart
<1>5. ASSUME NEW v \in Browsers
      PROVE  Current(v)'
  <2>1. CASE win[w].reset = "done"
    BY <1>1, <2>1 DEF Current
  <2>2. CASE win[w].reset # "done"
    <3>1. Current(v)
      BY DEF WindowsInv
    <3>2. f[v].phase = win[v].phase /\ f[v].keys = win[v].keys /\ f[v].mail = win[v].mail
      BY <1>3, <1>4
    <3>3. \A u \in Browsers : win[u].reset = "done" => f[u].reset = "done"
      BY <1>3, <2>2
    <3>4. QED
      BY <1>1, <3>1, <3>2, <3>3 DEF Current
  <2>3. QED
    BY <2>1, <2>2
<1>6. \A v \in Browsers : Rightly(f[v])
  BY <1>2, <1>3, <1>4
<1>7. QED
  BY <1>1, <1>3, <1>5, <1>6, RightAndCurrent DEF WindowsInv, WindowsTyped

\* So does a window that is reloaded while it waits for that answer.
LEMMA ReloadsStep ==
  ASSUME WindowsInv, NEW w \in Browsers, Reloads(w)
  PROVE  WindowsInv'
<1> DEFINE f == [win EXCEPT ![w] = reload(win[w])]
<1>1. win' = f /\ secret' = secret /\ served' = served /\ unannounced' = (unannounced \/ win[w].reset = "done")
  BY DEF Reloads
<1>2. win \in [Browsers -> Window] /\ \A v \in Browsers : Rightly(win[v])
  BY DEF WindowsInv, WindowsTyped, Rightly
<1>3. f = [v \in Browsers |-> f[v]] /\ f[w] = reload(win[w]) /\ \A v \in Browsers : v # w => f[v] = win[v]
  BY <1>2
<1> HIDE DEF f
<1>4. Rightly(f[w]) /\ f[w].phase = "registry"
  BY <1>2, <1>3, LoadedIsRight
<1>5. ASSUME NEW v \in Browsers
      PROVE  Current(v)'
  <2>1. CASE win[w].reset = "done" \/ v = w
    BY <1>1, <1>4, <2>1 DEF Current
  <2>2. CASE win[w].reset # "done" /\ v # w
    <3>1. Current(v) /\ f[v] = win[v]
      BY <1>3, <2>2 DEF WindowsInv
    <3>2. \A u \in Browsers : win[u].reset = "done" => f[u].reset = "done"
      BY <1>3, <2>2
    <3>3. QED
      BY <1>1, <3>1, <3>2 DEF Current
  <2>3. QED
    BY <2>1, <2>2
<1>6. \A v \in Browsers : Rightly(f[v])
  BY <1>2, <1>3, <1>4
<1>7. QED
  BY <1>1, <1>3, <1>5, <1>6, RightAndCurrent DEF WindowsInv, WindowsTyped

\* A backend that is started again has every window outlive it: none is held to the
\* new secret, and what was sent to the old one is of an earlier secret.
LEMMA BackendRestartsStep ==
  ASSUME WindowsInv, BackendRestarts
  PROVE  WindowsInv'
<1> DEFINE f == [v \in Browsers |-> [win[v] EXCEPT !.outlived = TRUE]]
<1>1. win' = f /\ secret' = secret + 1 /\ UNCHANGED <<served, unannounced>>
  BY DEF BackendRestarts
<1>2. WindowsTyped /\ secret \in Nat /\ secret' \in Nat \ {0} /\ secret <= secret'
  BY <1>1 DEF WindowsInv, WindowsTyped
<1>3. ASSUME NEW v \in Browsers
      PROVE  /\ f[v] \in Window /\ f[v].logins = win[v].logins /\ f[v].signingIn = win[v].signingIn
             /\ f[v].identity = win[v].identity /\ f[v].path = win[v].path /\ f[v].token = win[v].token
             /\ f[v].outlived /\ f[v].phase = win[v].phase /\ f[v].keys = win[v].keys /\ f[v].mail = win[v].mail
             /\ f[v].reset = win[v].reset
  <2>1. win[v] \in Window /\ f[v] = [win[v] EXCEPT !.outlived = TRUE]
    BY <1>2 DEF WindowsTyped
  <2> HIDE DEF f
  <2>2. QED
    BY <2>1 DEF Window
<1>4. f = [v \in Browsers |-> f[v]]
  OBVIOUS
<1> HIDE DEF f
<1>5. WindowsTyped'
  BY <1>1, <1>2, <1>3, <1>4 DEF WindowsTyped
<1>6. ASSUME NEW v \in Browsers
      PROVE  (Faithful(win[v]) /\ SigningIn(win[v]) /\ OnItsWay(win[v]) /\ Current(v))'
  <2>1. Faithful(win[v]) /\ SigningIn(win[v]) /\ OnItsWay(win[v]) /\ Current(v)
    BY DEF WindowsInv
  <2>2. win'[v] = f[v]
    BY <1>1
  <2>3. ASSUME NEW j \in DOMAIN win[v].logins
        PROVE  win[v].logins[j].secret <= secret'
    <3>1. win[v].logins[j].secret \in Nat /\ win[v].logins[j].secret <= secret
      <4>1. win[v].logins \in Seq(Login)
        BY <1>2 DEF WindowsTyped, Window
      <4>2. win[v].logins[j] \in Login
        BY <4>1, ElementOfSeq, LenProperties
      <4>3. QED
        BY <2>1, <4>2 DEF Faithful, Login
    <3>2. QED
      BY <1>2, <3>1
  <2>4. Faithful(win[v])'
    BY <1>3, <2>1, <2>2, <2>3 DEF Faithful
  <2>5. (SigningIn(win[v]) /\ OnItsWay(win[v]))'
    BY <1>3, <2>1, <2>2 DEF SigningIn, OnItsWay, UnderWay
  <2>6. Current(v)'
    BY <1>1, <1>3, <2>1 DEF Current
  <2>7. QED
    BY <2>4, <2>5, <2>6
<1>7. QED
  BY <1>5, <1>6 DEF WindowsInv

-----------------------------------------------------------------------------
(* The theorem *)

\* The invariant holds of windows that have not loaded yet.
LEMMA WindowsInvInit == WindowsInit => WindowsInv
<1>1. SUFFICES ASSUME WindowsInit
               PROVE  WindowsInv
  OBVIOUS
<1> DEFINE x == Loaded(Landing, NoToken)
<1>2. NoToken \in [seat : Seat \cup {Nobody}, secret : Nat]
  BY DEF NoToken
<1>3. <<>> \in Seq(Login) /\ DOMAIN <<>> = {}
  OBVIOUS
<1>4. /\ x \in Window /\ x.logins = <<>> /\ x.signingIn = Nobody /\ x.identity = Nobody /\ x.phase = "registry"
  <2> HIDE DEF NoToken
  <2>1. QED
    BY <1>2, <1>3 DEF Loaded, Window
<1> HIDE DEF x
<1>5. Faithful(x) /\ SigningIn(x) /\ OnItsWay(x)
  BY <1>3, <1>4 DEF Faithful, SigningIn, OnItsWay
<1>6. served = 1 /\ secret = 1 /\ win = [v \in Browsers |-> x]
  BY <1>1 DEF WindowsInit, x
<1>7. WindowsTyped /\ \A v \in Browsers : win[v] = x
  BY <1>4, <1>6 DEF WindowsTyped
<1>8. QED
  BY <1>4, <1>5, <1>7 DEF WindowsInv, Current

\* Every step keeps it.
LEMMA WindowsInvNext == WindowsInv /\ [WindowsNext]_winVars => WindowsInv'
<1>1. SUFFICES ASSUME WindowsInv, [WindowsNext]_winVars
               PROVE  WindowsInv'
  OBVIOUS
<1>2. ASSUME NEW w \in Browsers, NEW ok \in BOOLEAN, RegistryAnswers(w, ok) \/ MeAnswers(w, ok)
      PROVE  WindowsInv'
  BY <1>1, <1>2, RegistryStep, MeStep
<1>3. ASSUME NEW w \in Browsers, NEW p \in Visits[w] \cup {Landing}, Goes(w, p)
      PROVE  WindowsInv'
  BY <1>1, <1>3, GoesStep
<1>4. ASSUME NEW w \in Browsers, NEW seat \in Visits[w], enter(w, seat)
      PROVE  WindowsInv'
  BY <1>1, <1>4, EnterStep
<1>5. ASSUME NEW w \in Browsers, NEW i \in 1 .. MaxLogins, NEW k \in 1 .. secret, LoginAnswers(w, i, k)
      PROVE  WindowsInv'
  BY <1>1, <1>5, LoginAnswersStep
<1>6. ASSUME NEW w \in Browsers, NEW i \in 1 .. MaxLogins, LoginFails(w, i)
      PROVE  WindowsInv'
  BY <1>1, <1>6, LoginFailsStep
<1>7. ASSUME NEW w \in Browsers, onSignOut(w) \/ signOut(w)
      PROVE  WindowsInv'
  BY <1>1, <1>7, LeavingStep
<1>8. ASSUME NEW w \in Browsers, askReset(w) \/ BackendResets(w) \/ ResetAnswered(w) \/ ResetFails(w)
      PROVE  WindowsInv'
  BY <1>1, <1>8, AskStep, BackendResetsStep, ResetAnsweredStep, ResetFailsStep
<1>9. ASSUME NEW w \in Browsers, MailArrives(w) \/ UserReloads(w)
      PROVE  WindowsInv'
  BY <1>1, <1>9, ReloadsStep DEF MailArrives, UserReloads
<1>10. CASE BackendRestarts
  BY <1>1, <1>10, BackendRestartsStep
<1>11. CASE UNCHANGED winVars
  <2>1. win' = win /\ served' = served /\ secret' = secret /\ unannounced' = unannounced
    BY <1>11 DEF winVars
  <2>2. QED
    BY <1>1, <2>1 DEF WindowsInv, WindowsTyped, Faithful, SigningIn, OnItsWay, UnderWay, Current
<1>12. QED
  BY <1>1, <1>2, <1>3, <1>4, <1>5, <1>6, <1>7, <1>8, <1>9, <1>10, <1>11 DEF WindowsNext, WindowStep

\* Whatever order logins and resets are answered in, and whatever fails: a window
\* takes itself for the seat the backend takes its token for, unless the backend was
\* started again since; one that shows another seat's page is signing in to it; and
\* one that has loaded reads the epoch the backend serves, or a reload is on its way
\* (WalletSession.tsx, App.tsx's gate, SignIn.tsx's reset).
THEOREM WindowsStayCurrent == WindowsSpec => []WindowsAreCurrent
<1>1. WindowsInv => WindowsAreCurrent
  BY DEF WindowsInv, WindowsAreCurrent, Faithful, OnItsWay, UnderWay, verifySession
<1>2. QED
  BY <1>1, WindowsInvInit, WindowsInvNext, PTL DEF WindowsSpec

-----------------------------------------------------------------------------
(* The bounds of a window *)

\* A window shows and signs in to its own seats only, sends no more logins at once than
\* the bound lets it and none before it is ready, and reads an epoch there has been.
Kept(w, x, epochs) ==
  /\ x.path \in Visits[w] \cup {Landing}
  /\ x.token.seat \in Visits[w] \cup {Nobody} /\ x.identity \in Visits[w] \cup {Nobody}
  /\ x.signingIn \in Visits[w] \cup {Nobody}
  /\ \A i \in DOMAIN x.logins : x.logins[i].seat \in Visits[w]
  /\ Len(x.logins) <= MaxLogins
  /\ x.phase # "ready" => x.logins = <<>>
  /\ x.keys \in 0 .. epochs

\* The gate may sign a window in: there is room for one more login.
Roomy(x) == x.phase = "ready" /\ x.path # Landing /\ x.identity # x.path => Len(x.logins) < MaxLogins

WindowsKept ==
  /\ served \in Nat \ {0} /\ served + secret <= MaxUpsets + 2
  /\ \A w \in Browsers : Kept(w, win[w], served)

\* An interval from one has one end.
LEMMA SameInterval == \A a, b \in Nat : 1 .. a = 1 .. b => a = b
OBVIOUS

\* The gate keeps a window within its bounds.
LEMMA GateKeeps ==
  ASSUME NEW w \in Browsers, NEW x \in Window, NEW n \in Nat, Kept(w, x, n), Roomy(x), secret \in Nat
  PROVE  Kept(w, Gate(x), n)
<1> DEFINE due == x.phase = "ready" /\ x.path # Landing /\ x.identity # x.path /\ x.signingIn # x.path
           login == [seat |-> x.path, how |-> "auto", secret |-> secret]
           logins == Append(x.logins, login)
           y == [x EXCEPT !.signingIn = x.path, !.logins = logins]
<1>1. CASE ~due
  <2>1. Gate(x) = x
    BY <1>1 DEF Gate
  <2>2. QED
    BY <2>1
<1>2. CASE due
  <2>1. Gate(x) = y
    BY <1>2 DEF Gate
  <2>2. x.path \in Visits[w] /\ Len(x.logins) < MaxLogins /\ x.phase = "ready"
    BY <1>2 DEF Kept, Roomy
  <2>3. login \in Login /\ login.seat = x.path
    BY <2>2, VisitsAreSeats DEF Login
  <2>4. x.logins \in Seq(Login)
    BY DEF Window
  <2> HIDE DEF login
  <2>5. /\ Len(logins) = Len(x.logins) + 1 /\ logins \in Seq(Login)
        /\ \A j \in DOMAIN logins : logins[j] = login \/ \E m \in DOMAIN x.logins : logins[j] = x.logins[m]
    BY <2>3, <2>4, AppendProperties, AppendKeepsOthers
  <2> HIDE DEF logins
  <2>6. /\ y.path = x.path /\ y.token = x.token /\ y.identity = x.identity /\ y.signingIn = x.path
        /\ y.logins = logins /\ y.phase = x.phase /\ y.keys = x.keys
    BY DEF Window
  <2> HIDE DEF y
  <2>7. Len(logins) <= MaxLogins
    <3> DEFINE k == Len(x.logins)
    <3>1. k \in Nat /\ k < MaxLogins /\ Len(logins) = k + 1
      BY <2>2, <2>4, <2>5, LenProperties
    <3> HIDE DEF k
    <3>2. QED
      BY <3>1, WindowsAssumption
  <2>8. \A j \in DOMAIN logins : logins[j].seat \in Visits[w]
    BY <2>2, <2>3, <2>5 DEF Kept
  <2>9. Kept(w, y, n)
    BY <2>2, <2>6, <2>7, <2>8 DEF Kept
  <2>10. QED
    BY <2>1, <2>9
<1>3. QED
  BY <1>1, <1>2

\* So does going somewhere that is the window's own ...
LEMMA NavigateKeeps ==
  ASSUME NEW w, NEW x \in Window, NEW n, Kept(w, x, n), NEW p \in Visits[w] \cup {Landing}, p \in Seat \cup {Landing}
  PROVE  /\ Kept(w, navigate(x, p), n) /\ navigate(x, p) \in Window
         /\ navigate(x, p).path = p /\ Len(navigate(x, p).logins) = Len(x.logins)
<1> DEFINE logins == IF p = Landing THEN x.logins ELSE Left(x.logins)
           y == [x EXCEPT !.path = p, !.logins = logins]
<1>1. x.logins \in Seq(Login)
  BY DEF Window
<1>2. /\ logins \in Seq(Login) /\ DOMAIN logins = DOMAIN x.logins
      /\ \A i \in DOMAIN x.logins : logins[i].seat = x.logins[i].seat
  BY <1>1, LeftKeepsLogins
<1>3. navigate(x, p) = y
  BY DEF navigate
<1> HIDE DEF logins
<1>4. Len(logins) = Len(x.logins) /\ (x.logins = <<>> => logins = <<>>)
  <2>1. /\ DOMAIN logins = 1 .. Len(logins) /\ DOMAIN x.logins = 1 .. Len(x.logins)
        /\ Len(logins) \in Nat /\ Len(x.logins) \in Nat
    BY <1>1, <1>2, LenProperties
  <2>2. Len(logins) = Len(x.logins)
    BY ONLY <1>2, <2>1, SameInterval
  <2>3. ASSUME x.logins = <<>>
        PROVE  logins = <<>>
    <3>1. Len(logins) = 0
      BY <2>2, <2>3
    <3>2. QED
      BY <1>2, <3>1, EmptySeq
  <2>4. QED
    BY <2>2, <2>3
<1>5. /\ y \in Window /\ y.path = p /\ y.logins = logins /\ y.signingIn = x.signingIn /\ y.identity = x.identity
      /\ y.token = x.token /\ y.phase = x.phase /\ y.keys = x.keys
  BY <1>2 DEF Window
<1> HIDE DEF y
<1>6. QED
  BY <1>2, <1>3, <1>4, <1>5 DEF Kept

\* ... and what puts right whether a sign-in is under way.
LEMMA FinallyKeeps ==
  ASSUME NEW w, NEW x \in Window, NEW n, Kept(w, x, n), NEW login
  PROVE  /\ Kept(w, finally(x, login), n) /\ finally(x, login) \in Window
         /\ finally(x, login).logins = x.logins
<1> DEFINE y == [x EXCEPT !.signingIn = Nobody]
<1>1. /\ y \in Window /\ y.path = x.path /\ y.logins = x.logins /\ y.signingIn = Nobody /\ y.identity = x.identity
      /\ y.token = x.token /\ y.phase = x.phase /\ y.keys = x.keys
  BY DEF Window
<1>2. finally(x, login) = y \/ finally(x, login) = x
  BY DEF finally
<1> HIDE DEF y
<1>3. Kept(w, y, n)
  BY <1>1 DEF Kept
<1>4. QED
  BY <1>1, <1>2, <1>3

\* A step of one window within its bounds keeps all of them.
LEMMA QuietKeeps ==
  ASSUME WindowsInv, WindowsKept, NEW w \in Browsers, NEW x \in Window, Kept(w, x, served), Roomy(x), Quietly(w, x)
  PROVE  WindowsKept'
<1>1. win \in [Browsers -> Window] /\ served \in Nat /\ secret \in Nat
  BY DEF WindowsInv, WindowsTyped
<1>2. win' = [win EXCEPT ![w] = Gate(x)] /\ served' = served /\ secret' = secret
  BY DEF Quietly, Becomes
<1>3. Kept(w, Gate(x), served)
  BY <1>1, GateKeeps
<1>4. \A v \in Browsers : Kept(v, win'[v], served)
  BY <1>1, <1>2, <1>3 DEF WindowsKept
<1>5. QED
  BY <1>2, <1>4 DEF WindowsKept

\* A window that takes another's place at the same address and session keeps its bounds.
LEMMA AlikeKept ==
  ASSUME NEW w, NEW x, NEW y, NEW n, Kept(w, x, n), y.path = x.path, y.token = x.token, y.identity = x.identity,
         y.signingIn = x.signingIn, y.logins = x.logins, y.phase = x.phase \/ x.logins = <<>>, y.keys \in 0 .. n
  PROVE  Kept(w, y, n)
BY DEF Kept

\* A page as it loads is within them.
LEMMA ReloadKeeps ==
  ASSUME NEW w, NEW x \in Window, NEW n \in Nat, Kept(w, x, n)
  PROVE  Kept(w, reload(x), n)
<1> DEFINE y == Loaded(x.path, x.token)
<1>1. /\ y.path = x.path /\ y.token = x.token /\ y.identity = Nobody /\ y.signingIn = Nobody
      /\ y.logins = <<>> /\ y.phase = "registry" /\ y.keys = 0
  BY DEF Loaded
<1>2. reload(x) = y
  BY DEF reload
<1> HIDE DEF y
<1>3. DOMAIN <<>> = {} /\ Len(<<>>) = 0 /\ MaxLogins \in Nat
  BY WindowsAssumption
<1>4. Len(y.logins) <= MaxLogins
  BY <1>1, <1>3
<1>5. Kept(w, y, n)
  BY <1>1, <1>3, <1>4 DEF Kept
<1>6. QED
  BY <1>2, <1>5

\* In the bounds every window is one, and within them.
LEMMA EachIsKept ==
  ASSUME WindowsInv, WindowsKept, NEW w \in Browsers
  PROVE  /\ win[w] \in Window /\ win[w].logins \in Seq(Login) /\ Kept(w, win[w], served)
         /\ served \in Nat \ {0} /\ secret \in Nat \ {0} /\ Visits[w] \subseteq Seat
<1>1. win[w] \in Window
  BY DEF WindowsInv, WindowsTyped
<1>2. QED
  BY <1>1, VisitsAreSeats DEF WindowsInv, WindowsTyped, WindowsKept, Window

\* Taking a login out leaves room for another.
LEMMA WithoutLoginKeeps ==
  ASSUME NEW w, NEW x \in Window, NEW n, Kept(w, x, n), NEW i \in DOMAIN x.logins,
         NEW y, y = [x EXCEPT !.logins = RemoveAt(@, i)]
  PROVE  /\ y \in Window /\ Kept(w, y, n) /\ Len(y.logins) < MaxLogins
         /\ x.logins[i].seat \in Visits[w]
<1> DEFINE logins == RemoveAt(x.logins, i)
<1>1. x.logins \in Seq(Login)
  BY DEF Window
<1>2. /\ logins \in Seq(Login) /\ Len(logins) = Len(x.logins) - 1
      /\ \A j \in DOMAIN logins : \E m \in DOMAIN x.logins : logins[j] = x.logins[m]
  BY <1>1, RemoveAtKeepsOthers
<1> HIDE DEF logins
<1>3. /\ y \in Window /\ y.path = x.path /\ y.logins = logins /\ y.signingIn = x.signingIn /\ y.identity = x.identity
      /\ y.token = x.token /\ y.phase = x.phase /\ y.keys = x.keys
  <2>1. y = [x EXCEPT !.logins = logins]
    BY DEF logins
  <2>2. QED
    BY <1>2, <2>1 DEF Window
<1>4. x.phase = "ready"
  <2>1. x.logins # <<>>
    <3>1. DOMAIN <<>> = {}
      OBVIOUS
    <3>2. QED
      BY <3>1
  <2>2. QED
    BY <2>1 DEF Kept
<1>5. Len(logins) < MaxLogins
  <2> DEFINE k == Len(x.logins)
  <2>1. k \in Nat /\ k <= MaxLogins /\ Len(logins) = k - 1
    BY <1>1, <1>2, LenProperties DEF Kept
  <2> HIDE DEF k
  <2>2. QED
    BY <2>1, WindowsAssumption
<1>6. Len(logins) <= MaxLogins
  <2>1. Len(logins) \in Nat
    BY <1>2, LenProperties
  <2> DEFINE k == Len(logins)
  <2>2. k \in Nat /\ k < MaxLogins
    BY <1>5, <2>1
  <2> HIDE DEF k
  <2>3. k <= MaxLogins
    BY <2>2, WindowsAssumption
  <2>4. QED
    BY <2>3 DEF k
<1>7. \A j \in DOMAIN logins : logins[j].seat \in Visits[w]
  BY <1>2 DEF Kept
<1>8. Kept(w, y, n)
  BY <1>3, <1>4, <1>6, <1>7 DEF Kept
<1>9. QED
  BY <1>3, <1>5, <1>8 DEF Kept

\* The registry and the answer to who the token is for keep the bounds: no login is
\* under way before the window is ready.
LEMMA LoadingKeeps ==
  ASSUME WindowsInv, WindowsKept, NEW w \in Browsers, NEW ok \in BOOLEAN, RegistryAnswers(w, ok) \/ MeAnswers(w, ok)
  PROVE  WindowsKept'
<1>1. win[w] \in Window /\ Kept(w, win[w], served) /\ served \in Nat \ {0} /\ Visits[w] \subseteq Seat
  BY EachIsKept
<1>2. CASE RegistryAnswers(w, ok)
  <2> DEFINE keys == IF ok THEN served ELSE 0
             x == [win[w] EXCEPT !.phase = "me", !.keys = keys]
  <2>1. win[w].phase = "registry" /\ Quietly(w, x)
    BY <1>2 DEF RegistryAnswers
  <2>2. keys \in Nat /\ keys \in 0 .. served
    BY <1>1
  <2> HIDE DEF keys
  <2>3. /\ x \in Window /\ x.path = win[w].path /\ x.logins = win[w].logins /\ x.signingIn = win[w].signingIn
        /\ x.identity = win[w].identity /\ x.token = win[w].token /\ x.phase = "me" /\ x.keys = keys
    BY <1>1, <2>2 DEF Window
  <2> HIDE DEF x
  <2>4. win[w].logins = <<>>
    BY <1>1, <2>1 DEF Kept
  <2>5. Kept(w, x, served)
    BY <1>1, <2>2, <2>3, <2>4, AlikeKept
  <2>6. Roomy(x)
    BY <2>3 DEF Roomy
  <2>7. QED
    BY <2>1, <2>3, <2>5, <2>6, QuietKeeps
<1>3. CASE MeAnswers(w, ok)
  <2> DEFINE who == verifySession(win[w].token)
             token == IF who = Nobody THEN NoToken ELSE win[w].token
             x == [win[w] EXCEPT !.phase = "ready", !.identity = who, !.token = token]
             y == [win[w] EXCEPT !.phase = "ready"]
  <2>1. win[w].phase = "me" /\ Quietly(w, IF ok THEN x ELSE y)
    BY <1>3 DEF MeAnswers
  <2>2. win[w].token \in [seat : Seat \cup {Nobody}, secret : Nat] /\ win[w].token.seat \in Visits[w] \cup {Nobody}
    BY <1>1 DEF Window, Kept
  <2>3. /\ who \in Visits[w] \cup {Nobody} /\ token \in [seat : Seat \cup {Nobody}, secret : Nat]
        /\ token.seat \in Visits[w] \cup {Nobody}
    <3>1. who \in {win[w].token.seat, Nobody}
      BY DEF verifySession
    <3>2. CASE who = Nobody
      BY <3>2 DEF NoToken
    <3>3. CASE who # Nobody
      BY <2>2, <3>1, <3>3
    <3>4. QED
      BY <3>2, <3>3
  <2> HIDE DEF who, token
  <2>4. /\ x \in Window /\ x.path = win[w].path /\ x.logins = win[w].logins /\ x.signingIn = win[w].signingIn
        /\ x.identity = who /\ x.token = token /\ x.phase = "ready" /\ x.keys = win[w].keys
    <3>1. who \in Seat \cup {Nobody}
      BY <1>1, <2>3
    <3>2. QED
      BY <1>1, <2>3, <3>1 DEF Window
  <2>5. /\ y \in Window /\ y.path = win[w].path /\ y.logins = win[w].logins /\ y.signingIn = win[w].signingIn
        /\ y.identity = win[w].identity /\ y.token = win[w].token /\ y.phase = "ready" /\ y.keys = win[w].keys
    BY <1>1 DEF Window
  <2> HIDE DEF x, y
  <2>6. win[w].logins = <<>> /\ Len(<<>>) = 0 /\ DOMAIN <<>> = {} /\ 0 < MaxLogins
    BY <1>1, <2>1, WindowsAssumption DEF Kept
  <2>7. /\ Len(x.logins) < MaxLogins /\ Len(y.logins) < MaxLogins
        /\ Len(x.logins) <= MaxLogins /\ Len(y.logins) <= MaxLogins
    BY <2>4, <2>5, <2>6, WindowsAssumption
  <2>8. Kept(w, x, served) /\ Roomy(x)
    BY <1>1, <2>3, <2>4, <2>6, <2>7 DEF Kept, Roomy
  <2>9. Kept(w, y, served) /\ Roomy(y)
    BY <1>1, <2>5, <2>6, <2>7 DEF Kept, Roomy
  <2>10. CASE ok
    BY <2>1, <2>4, <2>8, <2>10, QuietKeeps
  <2>11. CASE ~ok
    BY <2>1, <2>5, <2>9, <2>11, QuietKeeps
  <2>12. QED
    BY <2>10, <2>11
<1>4. QED
  BY <1>2, <1>3

\* Going back and forth keeps the bounds: the window goes to its own seats.
LEMMA GoesKeeps ==
  ASSUME WindowsInv, WindowsKept, NEW w \in Browsers, NEW p \in Visits[w] \cup {Landing}, Goes(w, p)
  PROVE  WindowsKept'
<1>1. win[w] \in Window /\ Kept(w, win[w], served) /\ Visits[w] \subseteq Seat
  BY EachIsKept
<1> DEFINE x == navigate(win[w], p)
<1>2. Quietly(w, x) /\ Len(win[w].logins) < MaxLogins
  BY DEF Goes
<1>3. Kept(w, x, served) /\ x \in Window /\ Len(x.logins) = Len(win[w].logins)
  BY <1>1, NavigateKeeps
<1> HIDE DEF x
<1>4. Roomy(x)
  BY <1>2, <1>3 DEF Roomy
<1>5. QED
  BY <1>2, <1>3, <1>4, QuietKeeps

\* So does a seat entered: there is room for its login.
LEMMA EnterKeeps ==
  ASSUME WindowsInv, WindowsKept, NEW w \in Browsers, NEW seat \in Visits[w], enter(w, seat)
  PROVE  WindowsKept'
<1>1. /\ win[w] \in Window /\ win[w].logins \in Seq(Login) /\ Kept(w, win[w], served)
      /\ Visits[w] \subseteq Seat /\ secret \in Nat
  BY EachIsKept
<1> DEFINE login == [seat |-> seat, how |-> "enter", secret |-> secret]
           logins == Append(win[w].logins, login)
           x == [win[w] EXCEPT !.logins = logins]
<1>2. Quietly(w, x) /\ win[w].phase = "ready" /\ win[w].path = Landing /\ Len(win[w].logins) < MaxLogins
  BY DEF enter
<1>3. login \in Login /\ login.seat = seat
  BY <1>1 DEF Login
<1> HIDE DEF login
<1>4. /\ Len(logins) = Len(win[w].logins) + 1 /\ logins \in Seq(Login)
      /\ \A j \in DOMAIN logins : logins[j] = login \/ \E m \in DOMAIN win[w].logins : logins[j] = win[w].logins[m]
  BY <1>1, <1>3, AppendProperties, AppendKeepsOthers
<1> HIDE DEF logins
<1>5. /\ x \in Window /\ x.path = win[w].path /\ x.logins = logins /\ x.signingIn = win[w].signingIn
      /\ x.identity = win[w].identity /\ x.token = win[w].token /\ x.phase = win[w].phase /\ x.keys = win[w].keys
  BY <1>1, <1>4 DEF Window
<1> HIDE DEF x
<1>6. Len(logins) <= MaxLogins
  <2> DEFINE k == Len(win[w].logins)
  <2>1. k \in Nat /\ k < MaxLogins /\ Len(logins) = k + 1
    BY <1>1, <1>2, <1>4, LenProperties
  <2> HIDE DEF k
  <2>2. QED
    BY <2>1, WindowsAssumption
<1>7. \A j \in DOMAIN logins : logins[j].seat \in Visits[w]
  BY <1>1, <1>3, <1>4 DEF Kept
<1>8. Kept(w, x, served)
  BY <1>1, <1>2, <1>5, <1>6, <1>7 DEF Kept
<1>9. Roomy(x)
  BY <1>2, <1>5 DEF Roomy
<1>10. QED
  BY <1>2, <1>5, <1>8, <1>9, QuietKeeps

\* The answer to a login makes room for the one the gate may send.
LEMMA LoginAnswersKeeps ==
  ASSUME WindowsInv, WindowsKept, NEW w \in Browsers, NEW i, NEW k \in 1 .. secret, LoginAnswers(w, i, k)
  PROVE  WindowsKept'
<1>1. win[w] \in Window /\ Kept(w, win[w], served) /\ Visits[w] \subseteq Seat /\ secret \in Nat
  BY EachIsKept
<1> DEFINE login == win[w].logins[i]
           z == [win[w] EXCEPT !.logins = RemoveAt(@, i)]
           token == [seat |-> login.seat, secret |-> k]
           x == [win[w] EXCEPT !.logins = RemoveAt(@, i), !.token = signSession(login.seat, k), !.identity = login.seat]
           y == IF login.how = "auto" THEN x ELSE navigate(x, login.seat)
<1>2. i \in DOMAIN win[w].logins /\ Quietly(w, finally(y, login))
  BY DEF LoginAnswers
<1>3. z \in Window /\ Kept(w, z, served) /\ Len(z.logins) < MaxLogins /\ login.seat \in Visits[w]
  BY <1>1, <1>2, WithoutLoginKeeps
<1>4. x = [z EXCEPT !.token = token, !.identity = login.seat]
  BY DEF signSession
<1>5. token \in [seat : Seat \cup {Nobody}, secret : Nat] /\ token.seat = login.seat /\ login.seat \in Seat
  BY <1>1, <1>3
<1> HIDE DEF login, z, token, x
<1>6. /\ x \in Window /\ x.path = z.path /\ x.logins = z.logins /\ x.signingIn = z.signingIn
      /\ x.identity = login.seat /\ x.token = token /\ x.phase = z.phase /\ x.keys = z.keys
  <2> HIDE DEF y
  <2>1. QED
    BY <1>3, <1>4, <1>5 DEF Window
<1>7. Kept(w, x, served)
  BY <1>3, <1>5, <1>6 DEF Kept
<1>8. y \in Window /\ Kept(w, y, served) /\ Len(y.logins) < MaxLogins
  <2>1. CASE login.how = "auto"
    BY <1>3, <1>6, <1>7, <2>1
  <2>2. CASE login.how # "auto"
    <3>1. y = navigate(x, login.seat)
      BY <2>2
    <3>2. /\ Kept(w, navigate(x, login.seat), served) /\ navigate(x, login.seat) \in Window
          /\ Len(navigate(x, login.seat).logins) = Len(x.logins)
      <4> HIDE DEF y
      <4>1. login.seat \in Visits[w] \cup {Landing} /\ login.seat \in Seat \cup {Landing} /\ x \in Window
        BY <1>3, <1>5, <1>6
      <4>2. QED
        BY ONLY <4>1, <1>7, NavigateKeeps
    <3>3. QED
      BY <1>3, <1>6, <3>1, <3>2
  <2>3. QED
    BY <2>1, <2>2
<1> HIDE DEF y
<1>9. Kept(w, finally(y, login), served) /\ finally(y, login) \in Window /\ finally(y, login).logins = y.logins
  BY <1>8, FinallyKeeps
<1>10. Roomy(finally(y, login))
  BY <1>8, <1>9 DEF Roomy
<1>11. QED
  BY <1>2, <1>9, <1>10, QuietKeeps

\* So does one that fails.
LEMMA LoginFailsKeeps ==
  ASSUME WindowsInv, WindowsKept, NEW w \in Browsers, NEW i, LoginFails(w, i)
  PROVE  WindowsKept'
<1>1. win[w] \in Window /\ Kept(w, win[w], served)
  BY EachIsKept
<1> DEFINE login == win[w].logins[i]
           x == [win[w] EXCEPT !.logins = RemoveAt(@, i)]
           y == IF login.how = "auto" THEN navigate(x, Landing) ELSE x
<1>2. i \in DOMAIN win[w].logins /\ Quietly(w, finally(y, login))
  BY DEF LoginFails
<1>3. x \in Window /\ Kept(w, x, served) /\ Len(x.logins) < MaxLogins
  BY <1>1, <1>2, WithoutLoginKeeps
<1> HIDE DEF login, x
<1>4. /\ Kept(w, navigate(x, Landing), served) /\ navigate(x, Landing) \in Window
      /\ Len(navigate(x, Landing).logins) = Len(x.logins)
  BY <1>3, NavigateKeeps
<1>5. y \in Window /\ Kept(w, y, served) /\ Len(y.logins) < MaxLogins
  BY <1>3, <1>4
<1> HIDE DEF y
<1>6. Kept(w, finally(y, login), served) /\ finally(y, login) \in Window /\ finally(y, login).logins = y.logins
  BY <1>5, FinallyKeeps
<1>7. Roomy(finally(y, login))
  BY <1>5, <1>6 DEF Roomy
<1>8. QED
  BY <1>2, <1>6, <1>7, QuietKeeps

\* A window that signs out or asks for a reset has nothing to sign in to.
LEMMA LeavingKeeps ==
  ASSUME WindowsInv, WindowsKept, NEW w \in Browsers, onSignOut(w) \/ signOut(w) \/ askReset(w)
  PROVE  WindowsKept'
<1>1. win[w] \in Window /\ Kept(w, win[w], served) /\ served \in Nat /\ win[w].keys \in 0 .. served
  BY EachIsKept DEF Kept
<1>2. CASE onSignOut(w)
  <2> DEFINE x == [win[w] EXCEPT !.leaving = TRUE]
  <2>1. Quietly(w, x) /\ win[w].identity = win[w].path
    BY <1>2 DEF onSignOut
  <2>2. /\ x \in Window /\ x.path = win[w].path /\ x.logins = win[w].logins /\ x.signingIn = win[w].signingIn
        /\ x.identity = win[w].identity /\ x.token = win[w].token /\ x.phase = win[w].phase /\ x.keys = win[w].keys
    BY <1>1 DEF Window
  <2> HIDE DEF x
  <2>3. Kept(w, x, served) /\ Roomy(x)
    BY <1>1, <2>1, <2>2, AlikeKept DEF Roomy
  <2>4. QED
    BY <2>1, <2>2, <2>3, QuietKeeps
<1>3. CASE signOut(w)
  <2> DEFINE x == [win[w] EXCEPT !.token = NoToken, !.identity = Nobody, !.leaving = FALSE]
  <2>1. Quietly(w, navigate(x, Landing))
    BY <1>3 DEF signOut
  <2>2. NoToken \in [seat : Seat \cup {Nobody}, secret : Nat] /\ NoToken.seat = Nobody
    BY DEF NoToken
  <2>3. /\ x \in Window /\ x.path = win[w].path /\ x.logins = win[w].logins /\ x.signingIn = win[w].signingIn
        /\ x.identity = Nobody /\ x.token = NoToken /\ x.phase = win[w].phase /\ x.keys = win[w].keys
    <3> HIDE DEF NoToken
    <3>1. QED
      BY <1>1, <2>2 DEF Window
  <2> HIDE DEF x
  <2>4. Kept(w, x, served)
    BY <1>1, <2>2, <2>3 DEF Kept
  <2>5. /\ Kept(w, navigate(x, Landing), served) /\ navigate(x, Landing) \in Window
        /\ navigate(x, Landing).path = Landing
    BY <2>3, <2>4, NavigateKeeps
  <2>6. QED
    BY <2>1, <2>5, QuietKeeps DEF Roomy
<1>4. CASE askReset(w)
  <2> DEFINE x == [win[w] EXCEPT !.reset = "asked"]
  <2>1. Quietly(w, x) /\ win[w].path = Landing
    BY <1>4 DEF askReset
  <2>2. /\ x \in Window /\ x.path = win[w].path /\ x.logins = win[w].logins /\ x.signingIn = win[w].signingIn
        /\ x.identity = win[w].identity /\ x.token = win[w].token /\ x.phase = win[w].phase /\ x.keys = win[w].keys
    BY <1>1 DEF Window
  <2> HIDE DEF x
  <2>3. Kept(w, x, served) /\ Roomy(x)
    BY <1>1, <2>1, <2>2, AlikeKept DEF Roomy
  <2>4. QED
    BY <2>1, <2>2, <2>3, QuietKeeps
<1>5. QED
  BY <1>2, <1>3, <1>4

\* Windows that are as they were but for what they wait for, or load, keep the bounds.
AsBefore(y, x) ==
  /\ y.path = x.path /\ y.token = x.token /\ y.identity = x.identity /\ y.signingIn = x.signingIn
  /\ y.logins = x.logins /\ y.phase = x.phase /\ y.keys = x.keys

\* A reset carried out or answered, one that fails, a reload and a restart keep them.
LEMMA UpsetsKeep ==
  ASSUME WindowsInv, WindowsKept,
         \/ \E w \in Browsers : BackendResets(w) \/ ResetAnswered(w) \/ ResetFails(w) \/ Reloads(w)
         \/ BackendRestarts
  PROVE  WindowsKept'
<1>1. /\ win \in [Browsers -> Window] /\ served \in Nat \ {0} /\ secret \in Nat
      /\ MaxUpsets \in Nat /\ served + secret <= MaxUpsets + 2
  BY WindowsAssumption DEF WindowsInv, WindowsTyped, WindowsKept
<1>2. /\ served' \in {served, served + 1} /\ secret' \in Nat /\ served' + secret' <= MaxUpsets + 2
  <2>1. CASE \E w \in Browsers : BackendResets(w)
    <3>1. served' = served + 1 /\ secret' = secret /\ served + secret < MaxUpsets + 2
      BY <2>1 DEF BackendResets, UpsetsLeft
    <3>2. QED
      BY <1>1, <3>1
  <2>2. CASE \E w \in Browsers : ResetAnswered(w) \/ ResetFails(w) \/ Reloads(w)
    <3>1. served' = served /\ secret' = secret
      BY <2>2 DEF ResetAnswered, ResetFails, Reloads
    <3>2. QED
      BY <1>1, <3>1
  <2>3. CASE BackendRestarts
    <3>1. served' = served /\ secret' = secret + 1 /\ served + secret < MaxUpsets + 2
      BY <2>3 DEF BackendRestarts, UpsetsLeft
    <3>2. QED
      BY <1>1, <3>1
  <2>4. QED
    BY <2>1, <2>2, <2>3
<1>3. ASSUME NEW v \in Browsers
      PROVE  win'[v] = reload(win[v]) \/ AsBefore(win'[v], win[v])
  <2>1. win[v] \in Window
    BY <1>1
  <2>2. \A r \in {Idle, "done"} : AsBefore([win[v] EXCEPT !.reset = r], win[v])
    BY <2>1 DEF Window, AsBefore
  <2>3. AsBefore([win[v] EXCEPT !.mail = TRUE], win[v])
    BY <2>1 DEF Window, AsBefore
  <2>4. AsBefore([win[v] EXCEPT !.outlived = TRUE], win[v])
    BY <2>1 DEF Window, AsBefore
  <2>5. AsBefore(win[v], win[v])
    BY DEF AsBefore
  <2>6. ASSUME NEW w \in Browsers, BackendResets(w) \/ ResetFails(w)
        PROVE  win'[v] = reload(win[v]) \/ AsBefore(win'[v], win[v])
    <3>1. PICK r \in {Idle, "done"} : win' = [win EXCEPT ![w].reset = r]
      BY <2>6 DEF BackendResets, ResetFails
    <3>2. win'[v] = IF v = w THEN [win[v] EXCEPT !.reset = r] ELSE win[v]
      BY <1>1, <3>1
    <3>3. QED
      BY <2>2, <2>5, <3>2
  <2>7. ASSUME NEW w \in Browsers, ResetAnswered(w)
        PROVE  win'[v] = reload(win[v]) \/ AsBefore(win'[v], win[v])
    <3>1. win'[v] = IF v = w THEN reload(win[v]) ELSE [win[v] EXCEPT !.mail = TRUE]
      BY <2>7 DEF ResetAnswered
    <3>2. QED
      BY <2>3, <3>1
  <2>8. ASSUME NEW w \in Browsers, Reloads(w)
        PROVE  win'[v] = reload(win[v]) \/ AsBefore(win'[v], win[v])
    <3>1. win'[v] = IF v = w THEN reload(win[v]) ELSE win[v]
      BY <1>1, <2>8 DEF Reloads
    <3>2. QED
      BY <2>5, <3>1
  <2>9. CASE BackendRestarts
    <3>1. win'[v] = [win[v] EXCEPT !.outlived = TRUE]
      BY <2>9 DEF BackendRestarts
    <3>2. QED
      BY <2>4, <3>1
  <2>10. QED
    BY <2>6, <2>7, <2>8, <2>9
<1>4. ASSUME NEW v \in Browsers
      PROVE  Kept(v, win'[v], served')
  <2>1. win[v] \in Window /\ Kept(v, win[v], served) /\ served' \in Nat
    BY <1>1, <1>2 DEF WindowsKept
  <2>2. win[v].keys \in 0 .. served
    BY <2>1 DEF Kept
  <2>3. win[v].keys \in 0 .. served'
    BY <1>1, <1>2, <2>2
  <2>4. Kept(v, win[v], served')
    BY <2>1, <2>3 DEF Kept
  <2>5. CASE win'[v] = reload(win[v])
    BY <2>1, <2>4, <2>5, ReloadKeeps
  <2>6. CASE AsBefore(win'[v], win[v])
    BY <2>3, <2>4, <2>6, AlikeKept DEF AsBefore
  <2>7. QED
    BY <1>3, <2>5, <2>6
<1>5. served' \in Nat \ {0}
  BY <1>1, <1>2
<1>6. QED
  BY <1>2, <1>4, <1>5 DEF WindowsKept

\* Windows that have not loaded yet are within the bounds ...
LEMMA WindowsKeptInit == WindowsInit => WindowsKept
<1>1. SUFFICES ASSUME WindowsInit
               PROVE  WindowsKept
  OBVIOUS
<1> DEFINE x == Loaded(Landing, NoToken)
<1>2. /\ x.path = Landing /\ x.token.seat = Nobody /\ x.identity = Nobody /\ x.signingIn = Nobody
      /\ x.logins = <<>> /\ x.phase = "registry" /\ x.keys = 0
  BY DEF Loaded, NoToken
<1>3. served = 1 /\ secret = 1 /\ win = [v \in Browsers |-> x]
  BY <1>1 DEF WindowsInit
<1> HIDE DEF x
<1>4. Len(<<>>) = 0 /\ DOMAIN <<>> = {} /\ 0 <= MaxLogins /\ 2 <= MaxUpsets + 2
  BY WindowsAssumption
<1>5. Len(x.logins) <= MaxLogins
  BY <1>2, <1>4
<1>6. \A w \in Browsers : Kept(w, x, 1)
  BY <1>2, <1>4, <1>5 DEF Kept
<1>7. QED
  BY <1>3, <1>4, <1>6 DEF WindowsKept

\* ... and every step keeps them there.
LEMMA WindowsKeptNext == WindowsInv /\ WindowsKept /\ [WindowsNext]_winVars => WindowsKept'
<1>1. SUFFICES ASSUME WindowsInv, WindowsKept, [WindowsNext]_winVars
               PROVE  WindowsKept'
  OBVIOUS
<1>2. ASSUME NEW w \in Browsers, NEW ok \in BOOLEAN, RegistryAnswers(w, ok) \/ MeAnswers(w, ok)
      PROVE  WindowsKept'
  BY <1>1, <1>2, LoadingKeeps
<1>3. ASSUME NEW w \in Browsers, NEW p \in Visits[w] \cup {Landing}, Goes(w, p)
      PROVE  WindowsKept'
  BY <1>1, <1>3, GoesKeeps
<1>4. ASSUME NEW w \in Browsers, NEW seat \in Visits[w], enter(w, seat)
      PROVE  WindowsKept'
  BY <1>1, <1>4, EnterKeeps
<1>5. ASSUME NEW w \in Browsers, NEW i \in 1 .. MaxLogins, NEW k \in 1 .. secret, LoginAnswers(w, i, k)
      PROVE  WindowsKept'
  BY <1>1, <1>5, LoginAnswersKeeps
<1>6. ASSUME NEW w \in Browsers, NEW i \in 1 .. MaxLogins, LoginFails(w, i)
      PROVE  WindowsKept'
  BY <1>1, <1>6, LoginFailsKeeps
<1>7. ASSUME NEW w \in Browsers, onSignOut(w) \/ signOut(w) \/ askReset(w)
      PROVE  WindowsKept'
  BY <1>1, <1>7, LeavingKeeps
<1>8. ASSUME NEW w \in Browsers,
             BackendResets(w) \/ ResetAnswered(w) \/ ResetFails(w) \/ MailArrives(w) \/ UserReloads(w)
      PROVE  WindowsKept'
  BY <1>1, <1>8, UpsetsKeep DEF MailArrives, UserReloads
<1>9. CASE BackendRestarts
  BY <1>1, <1>9, UpsetsKeep
<1>10. CASE UNCHANGED winVars
  <2>1. win' = win /\ served' = served /\ secret' = secret
    BY <1>10 DEF winVars
  <2>2. QED
    BY <1>1, <2>1 DEF WindowsKept
<1>11. QED
  BY <1>1, <1>2, <1>3, <1>4, <1>5, <1>6, <1>7, <1>8, <1>9, <1>10 DEF WindowsNext, WindowStep

\* In the invariant and the bounds, the windows are typed.
LEMMA WindowsAreTyped == WindowsInv /\ WindowsKept => WindowsTypeOK
<1>1. SUFFICES ASSUME WindowsInv, WindowsKept
               PROVE  WindowsTypeOK
  OBVIOUS
<1>2. ASSUME NEW w \in Browsers
      PROVE  /\ win[w].path \in Visits[w] \cup {Landing} /\ win[w].phase \in {"registry", "me", "ready"}
             /\ {win[w].token.seat, win[w].identity, win[w].signingIn} \subseteq Visits[w] \cup {Nobody}
             /\ Len(win[w].logins) <= MaxLogins /\ win[w].keys \in 0 .. served
  <2>1. Kept(w, win[w], served) /\ win[w] \in Window
    BY <1>1, EachIsKept
  <2>2. win[w].phase \in {"registry", "me", "ready"}
    BY <2>1 DEF Window
  <2>3. QED
    BY <2>1, <2>2 DEF Kept
<1>3. QED
  BY <1>1, <1>2 DEF WindowsInv, WindowsTyped, WindowsKept, WindowsTypeOK

\* A window shows and signs in to its own seats, has no more logins under way than the
\* bound lets it and none before it is ready, and reads an epoch the backend served.
THEOREM WindowsTypeCorrect == WindowsSpec => []WindowsTypeOK
<1>1. WindowsInit => WindowsInv /\ WindowsKept
  BY WindowsInvInit, WindowsKeptInit
<1>2. (WindowsInv /\ WindowsKept) /\ [WindowsNext]_winVars => (WindowsInv /\ WindowsKept)'
  BY WindowsInvNext, WindowsKeptNext
<1>3. QED
  BY <1>1, <1>2, WindowsAreTyped, PTL DEF WindowsSpec
=============================================================================
