---------------------------- MODULE SignInProofs ----------------------------
(***************************************************************************)
(* Proofs about SignIn: its type invariant, SessionsResolve,               *)
(* CookieAsAnswered and HeldUntilLost, for any number of tabs, browsers    *)
(* and accounts and whatever is delayed, lost or restarted.                *)
(***************************************************************************)
EXTENDS SignIn, TLAPS

-----------------------------------------------------------------------------
(* The inductive invariant. *)

\* A user between its two inserts belongs to one handler and has no account yet.
FreshUser(t) ==
  pc[t] = "auth" =>
    /\ user[t] \in users
    /\ \A r \in githubAuth : r.user # user[t]
    /\ \A o \in Tabs : pc[o] = "auth" /\ user[o] = user[t] => o = t

\* A session is opened for a row that is in github_auth_data, and stays there.
KnownUser(t) ==
  pc[t] = "session" => [account |-> account[t], user |-> user[t]] \in githubAuth

RowsInv ==
  /\ SessionsResolve
  /\ \A t \in Tabs : FreshUser(t) /\ KnownUser(t)

\* OpenedFor, of sessions O opened so far and rows G of github_auth_data.
Opener(O, G, b, id, u) ==
  \E o \in O : /\ o.id = id /\ o.browser = b
              /\ [account |-> o.account, user |-> u] \in G

\* Session id, if it is in table S, was opened by b for the user it says.
IsOwn(S, O, G, b, id) == \A s \in S : s.id = id => Opener(O, G, b, id, s.user)

\* What a browser or one of its requests holds is its own, or is gone.
IdForBrowser(b, id) == IsOwn(sessions, opened, githubAuth, b, id)

Page(t) ==
  kind[t] = "dashboard" =>
    /\ pc[t] \in {"idle", "middleware", "respond"}
    /\ user[t] # NoUser =>
         Opener(opened, githubAuth, BrowserOf[t], sent[t], user[t])

OwnInv ==
  /\ \A b \in Browsers : IdForBrowser(b, cookie[b])
  /\ \A t \in Tabs : /\ IdForBrowser(BrowserOf[t], sent[t])
                     /\ IdForBrowser(BrowserOf[t], reply[t])
                     /\ Page(t)

IInv == TypeOK /\ RowsInv /\ OwnInv

-----------------------------------------------------------------------------

\* Init establishes the invariant.
LEMMA InitIInv == Init => IInv
  BY SignInAssumption
  DEF Init, IInv, TypeOK, RowsInv, OwnInv, SessionsResolve, FreshUser, KnownUser,
      IdForBrowser, IsOwn, Page, Kinds, Steps, IssuedIds, NoSession, NoUser,
      Keep

\* The row InsertAuth adds is one of github_auth_data.
LEMMA NewRowTyped ==
  ASSUME IInv, NEW t \in Tabs, InsertAuth(t)
  PROVE  [account |-> account[t], user |-> user[t]]
           \in [account : Accounts \cup {Nobody}, user : users]
<1>1. account[t] \in Accounts \cup {Nobody}
  BY DEF IInv, TypeOK
<1>2. user[t] \in users
  BY DEF IInv, RowsInv, FreshUser, InsertAuth
<1> QED
  BY <1>1, <1>2

\* Every step keeps the types.
LEMMA TypeStep == IInv /\ [Next]_vars => TypeOK'
<1> SUFFICES ASSUME IInv, [Next]_vars PROVE TypeOK'
  OBVIOUS
<1> USE SignInAssumption DEF IInv, RowsInv, KnownUser, TypeOK, Kinds, Steps,
      IssuedIds, NoSession, NoUser, Keep, tables, handler, history
<1>1. ASSUME NEW t \in Tabs, NEW k \in Kinds, Send(t, k) PROVE TypeOK'
  BY <1>1 DEF Send, FirstStep
<1>2. ASSUME NEW t \in Tabs, Receive(t) PROVE TypeOK'
  BY <1>2 DEF Receive
<1>3. ASSUME NEW t \in Tabs, Lose(t) PROVE TypeOK'
  BY <1>3 DEF Lose
<1>4. ASSUME NEW t \in Tabs, Fail(t) PROVE TypeOK'
  BY <1>4 DEF Fail, Goto
<1>5. ASSUME NEW t \in Tabs, CheckIsSignedIn(t) PROVE TypeOK'
  BY <1>5 DEF CheckIsSignedIn, Goto
<1>6. ASSUME NEW t \in Tabs, Exchange(t) PROVE TypeOK'
  BY <1>6 DEF Exchange, Answers, Goto
<1>7. ASSUME NEW t \in Tabs, LookupUser(t) PROVE TypeOK'
  BY <1>7 DEF LookupUser, RowsOf, Goto
<1>8. ASSUME NEW t \in Tabs, InsertUser(t) PROVE TypeOK'
  BY <1>8 DEF InsertUser, Goto
<1>9. ASSUME NEW t \in Tabs, InsertAuth(t) PROVE TypeOK'
  <2>1. [account |-> account[t], user |-> user[t]]
           \in [account : Accounts \cup {Nobody}, user : users]
    BY <1>9, NewRowTyped
  <2>2. githubAuth' \subseteq [account : Accounts \cup {Nobody}, user : users]
    BY <1>9, <2>1 DEF InsertAuth
  <2> QED
    BY <1>9, <2>2 DEF InsertAuth, Goto
<1>10. ASSUME NEW t \in Tabs, InsertSession(t) PROVE TypeOK'
  <2>1. user[t] \in users
    BY <1>10 DEF InsertSession
  <2>2. CASE SessionConflict(t)
    BY <1>10, <2>2 DEF InsertSession, Goto
  <2>3. CASE ~SessionConflict(t)
    <3>1. [id |-> nextSession, user |-> user[t]]
             \in [id : 1 .. nextSession' - 1, user : users]
      BY <1>10, <2>1, <2>3 DEF InsertSession
    <3>2. IssuedIds \subseteq 1 .. nextSession' - 1
      BY <1>10, <2>3 DEF InsertSession
    <3>3. sessions' \subseteq [id : 1 .. nextSession' - 1, user : users]
      BY <1>10, <2>3, <3>1, <3>2 DEF InsertSession
    <3> QED
      BY <1>10, <2>3, <3>2, <3>3 DEF InsertSession, Goto
  <2> QED
    BY <2>2, <2>3
<1>11. ASSUME NEW t \in Tabs, Signout(t) PROVE TypeOK'
  BY <1>11 DEF Signout, SessionsOf, Goto
<1>12. ASSUME NEW t \in Tabs, Middleware(t) PROVE TypeOK'
  BY <1>12 DEF Middleware, SessionsOf, Goto
<1>13. ASSUME NEW b \in Browsers, Expire(b) PROVE TypeOK'
  BY <1>13 DEF Expire
<1>14. ASSUME Kill PROVE TypeOK'
  BY <1>14 DEF Kill
<1>15. CASE UNCHANGED vars
  BY <1>15 DEF vars
<1> QED
  BY <1>1, <1>2, <1>3, <1>4, <1>5, <1>6, <1>7, <1>8, <1>9, <1>10, <1>11,
     <1>12, <1>13, <1>14, <1>15 DEF Next, Handle

\* Every step keeps accounts, users and sessions apart.
LEMMA RowsStep == IInv /\ [Next]_vars => RowsInv'
<1> SUFFICES ASSUME IInv, [Next]_vars PROVE RowsInv'
  OBVIOUS
<1> USE SignInAssumption DEF IInv, RowsInv, SessionsResolve, FreshUser,
      KnownUser, TypeOK, Kinds, IssuedIds, NoSession, NoUser, Keep, tables,
      handler, history
<1>1. ASSUME NEW t \in Tabs, NEW k \in Kinds, Send(t, k) PROVE RowsInv'
  BY <1>1 DEF Send, FirstStep
<1>2. ASSUME NEW t \in Tabs, Receive(t) PROVE RowsInv'
  BY <1>2 DEF Receive
<1>3. ASSUME NEW t \in Tabs, Lose(t) PROVE RowsInv'
  BY <1>3 DEF Lose
<1>4. ASSUME NEW t \in Tabs, Fail(t) PROVE RowsInv'
  BY <1>4 DEF Fail, Goto
<1>5. ASSUME NEW t \in Tabs, CheckIsSignedIn(t) PROVE RowsInv'
  BY <1>5 DEF CheckIsSignedIn, Goto
<1>6. ASSUME NEW t \in Tabs, Exchange(t) PROVE RowsInv'
  BY <1>6 DEF Exchange, Answers, Goto
<1>7. ASSUME NEW t \in Tabs, LookupUser(t) PROVE RowsInv'
  BY <1>7 DEF LookupUser, RowsOf, Goto
<1>8. ASSUME NEW t \in Tabs, InsertUser(t) PROVE RowsInv'
  BY <1>8 DEF InsertUser, Goto
<1>9. ASSUME NEW t \in Tabs, InsertAuth(t) PROVE RowsInv'
  BY <1>9 DEF InsertAuth, AuthConflict, RowsOf, Goto
<1>10. ASSUME NEW t \in Tabs, InsertSession(t) PROVE RowsInv'
  <2>1. CASE SessionConflict(t)
    BY <1>10, <2>1 DEF InsertSession, Goto
  <2>2. CASE ~SessionConflict(t)
    <3> DEFINE new == [id |-> nextSession, user |-> user[t]]
    <3>1. /\ sessions' = sessions \cup {new}
          /\ new.id = nextSession /\ new.user = user[t]
      BY <1>10, <2>2 DEF InsertSession
    <3>2. [account |-> account[t], user |-> user[t]] \in githubAuth
      BY <1>10 DEF InsertSession
    <3>3. \A s \in sessions : s.id # nextSession /\ s.user # user[t]
      BY <2>2 DEF SessionConflict
    <3> HIDE DEF new
    <3> QED
      BY <1>10, <2>2, <3>1, <3>2, <3>3 DEF InsertSession, Goto
  <2> QED
    BY <2>1, <2>2
<1>11. ASSUME NEW t \in Tabs, Signout(t) PROVE RowsInv'
  BY <1>11 DEF Signout, SessionsOf, Goto
<1>12. ASSUME NEW t \in Tabs, Middleware(t) PROVE RowsInv'
  BY <1>12 DEF Middleware, SessionsOf, Goto
<1>13. ASSUME NEW b \in Browsers, Expire(b) PROVE RowsInv'
  BY <1>13 DEF Expire
<1>14. ASSUME Kill PROVE RowsInv'
  BY <1>14 DEF Kill
<1>15. CASE UNCHANGED vars
  BY <1>15 DEF vars
<1> QED
  BY <1>1, <1>2, <1>3, <1>4, <1>5, <1>6, <1>7, <1>8, <1>9, <1>10, <1>11,
     <1>12, <1>13, <1>14, <1>15 DEF Next, Handle

\* What is a browser's own stays so: sessions opened and rows of github_auth_data
\* are never taken back.
LEMMA OwnStays ==
  ASSUME NEW S, NEW O, NEW G, NEW T, NEW P, NEW H, O \subseteq P, G \subseteq H
  PROVE  /\ \A b, id, u : Opener(O, G, b, id, u) => Opener(P, H, b, id, u)
         /\ \A b, id : IsOwn(S, O, G, b, id) /\ (\A s \in T : s.id = id => s \in S)
                         => IsOwn(T, P, H, b, id)
<1>1. \A b, id, u : Opener(O, G, b, id, u) => Opener(P, H, b, id, u)
  BY DEF Opener
<1> QED
  BY <1>1 DEF IsOwn

\* Where no session is new, it is enough that what tabs and browsers hold comes
\* from what they held.
LEMMA NothingNew ==
  ASSUME OwnInv, opened \subseteq opened', githubAuth \subseteq githubAuth',
         sessions' \subseteq sessions
  PROVE  /\ \A b, id : IdForBrowser(b, id) =>
                IsOwn(sessions', opened', githubAuth', b, id)
         /\ \A b, id, u : Opener(opened, githubAuth, b, id, u) =>
                Opener(opened', githubAuth', b, id, u)
  BY OwnStays DEF IdForBrowser

\* Every step keeps what a browser holds its own.
LEMMA OwnStep == IInv /\ [Next]_vars => OwnInv'
<1> SUFFICES ASSUME IInv, [Next]_vars PROVE OwnInv'
  OBVIOUS
<1> DEFINE Own(b, id) == IsOwn(sessions', opened', githubAuth', b, id)
           Opened(b, id, u) == Opener(opened', githubAuth', b, id, u)
<1>0. \A b : Own(b, NoSession) /\ Own(b, Keep)
  <2>1. TypeOK'
    BY TypeStep
  <2>2. \A s \in sessions' : s.id # NoSession /\ s.id # Keep
    BY <2>1 DEF TypeOK, IssuedIds, NoSession, Keep
  <2> QED
    BY <2>2 DEF IsOwn
<1> DEFINE Goal ==
             /\ \A b \in Browsers : Own(b, cookie'[b])
             /\ \A t \in Tabs :
                  /\ Own(BrowserOf[t], sent'[t])
                  /\ Own(BrowserOf[t], reply'[t])
                  /\ kind'[t] = "dashboard" =>
                       /\ pc'[t] \in {"idle", "middleware", "respond"}
                       /\ user'[t] # NoUser =>
                            Opened(BrowserOf[t], sent'[t], user'[t])
<1> SUFFICES Goal
  BY DEF OwnInv, IdForBrowser, Page
<1>a. ASSUME opened \subseteq opened', githubAuth \subseteq githubAuth',
             sessions' \subseteq sessions
      PROVE  /\ \A b, id : IdForBrowser(b, id) => Own(b, id)
             /\ \A b, id, u : Opener(opened, githubAuth, b, id, u) => Opened(b, id, u)
  BY <1>a, NothingNew DEF IInv
<1> HIDE DEF Own, Opened
<1> USE SignInAssumption, <1>0, <1>a DEF IInv, TypeOK, OwnInv, Page, tables, handler,
      history
<1>1. ASSUME NEW t \in Tabs, NEW k \in Kinds, Send(t, k) PROVE Goal
  BY <1>1 DEF Send, FirstStep, Kinds
<1>2. ASSUME NEW t \in Tabs, Receive(t) PROVE Goal
  BY <1>2 DEF Receive
<1>3. ASSUME NEW t \in Tabs, Lose(t) PROVE Goal
  BY <1>3 DEF Lose
<1>4. ASSUME NEW t \in Tabs, Fail(t) PROVE Goal
  BY <1>4 DEF Fail, Goto
<1>5. ASSUME NEW t \in Tabs, CheckIsSignedIn(t) PROVE Goal
  BY <1>5 DEF CheckIsSignedIn, Goto
<1>6. ASSUME NEW t \in Tabs, Exchange(t) PROVE Goal
  BY <1>6 DEF Exchange, Goto
<1>7. ASSUME NEW t \in Tabs, LookupUser(t) PROVE Goal
  BY <1>7 DEF LookupUser, Goto
<1>8. ASSUME NEW t \in Tabs, InsertUser(t) PROVE Goal
  BY <1>8 DEF InsertUser, Goto
<1>9. ASSUME NEW t \in Tabs, InsertAuth(t) PROVE Goal
  BY <1>9 DEF InsertAuth, Goto
<1>10. ASSUME NEW t \in Tabs, InsertSession(t) PROVE Goal
  <2>1. CASE SessionConflict(t)
    BY <1>10, <2>1 DEF InsertSession, Goto
  <2>2. CASE ~SessionConflict(t)
    <3> DEFINE new == [id |-> nextSession, user |-> user[t]]
               opening == [id |-> nextSession, browser |-> BrowserOf[t],
                           account |-> account[t]]
    <3>1. /\ sessions' = sessions \cup {new}
          /\ opened' = opened \cup {opening}
          /\ githubAuth' = githubAuth
          /\ reply' = [reply EXCEPT ![t] = nextSession]
          /\ pc[t] = "session" /\ pc' = [pc EXCEPT ![t] = "respond"]
          /\ UNCHANGED <<cookie, sent, kind, user>>
      BY <1>10, <2>2 DEF InsertSession, Goto
    <3>2. /\ new.id = nextSession /\ new.user = user[t]
          /\ opening.id = nextSession /\ opening.browser = BrowserOf[t]
          /\ opening.account = account[t]
      OBVIOUS
    <3> HIDE DEF new, opening
    <3>3. [account |-> account[t], user |-> user[t]] \in githubAuth
      BY <1>10 DEF InsertSession, RowsInv, KnownUser
    <3>4. \A s \in sessions : s.id # nextSession
      BY DEF IssuedIds
    <3>5. Own(BrowserOf[t], nextSession)
      <4>1. Opened(BrowserOf[t], nextSession, user[t])
        BY <3>1, <3>2, <3>3 DEF Opened, Opener
      <4> QED
        BY <3>1, <3>2, <3>4, <4>1 DEF Own, Opened, IsOwn
    <3>6. \A b, id : id # nextSession /\ IdForBrowser(b, id) => Own(b, id)
      BY <3>1, <3>2, OwnStays DEF Own, IdForBrowser
    <3>7. \A b, id, u : Opener(opened, githubAuth, b, id, u) => Opened(b, id, u)
      BY <3>1, OwnStays DEF Opened
    <3>8. \A b \in Browsers : cookie[b] # nextSession
      BY DEF IssuedIds, NoSession
    <3>9. \A o \in Tabs : sent[o] # nextSession /\ reply[o] # nextSession
      BY DEF IssuedIds, NoSession, Keep
    <3> QED
      BY <3>1, <3>5, <3>6, <3>7, <3>8, <3>9
  <2> QED
    BY <2>1, <2>2
<1>11. ASSUME NEW t \in Tabs, Signout(t) PROVE Goal
  BY <1>11 DEF Signout, Goto
<1>12. ASSUME NEW t \in Tabs, Middleware(t) PROVE Goal
  <2>1. \A s \in SessionsOf(sent[t]) :
          Opener(opened, githubAuth, BrowserOf[t], sent[t], s.user)
    BY DEF SessionsOf, IdForBrowser, IsOwn
  <2> QED
    BY <1>12, <2>1 DEF Middleware, Goto
<1>13. ASSUME NEW b \in Browsers, Expire(b) PROVE Goal
  BY <1>13 DEF Expire
<1>14. ASSUME Kill PROVE Goal
  BY <1>14 DEF Kill
<1>15. CASE UNCHANGED vars
  BY <1>15 DEF vars
<1> QED
  BY <1>1, <1>2, <1>3, <1>4, <1>5, <1>6, <1>7, <1>8, <1>9, <1>10, <1>11,
     <1>12, <1>13, <1>14, <1>15 DEF Next, Handle

-----------------------------------------------------------------------------

\* IInv is inductive.
LEMMA NextIInv == IInv /\ [Next]_vars => IInv'
  BY TypeStep, RowsStep, OwnStep DEF IInv

\* The invariant holds in every reachable state.
THEOREM SignInInvariant == Spec => []IInv
<1>1. Init => IInv
  BY InitIInv
<1>2. IInv /\ [Next]_vars => IInv'
  BY NextIInv
<1> QED
  BY <1>1, <1>2, PTL DEF Spec

\* Cookies, handlers and rows hold only ids the database handed out.
THEOREM TypeCorrect == Spec => []TypeOK
<1>1. IInv => TypeOK
  BY DEF IInv
<1> QED
  BY <1>1, SignInInvariant, PTL

\* However callbacks interleave, one user for an account, one account for a user,
\* and no session for a user without one.
THEOREM AccountsAndUsersMatch == Spec => []SessionsResolve
<1>1. IInv => SessionsResolve
  BY DEF IInv, RowsInv
<1> QED
  BY <1>1, SignInInvariant, PTL

\* A browser's cookie, and the page it is served, are of a session it opened.
THEOREM CookiesAreAsAnswered == Spec => []CookieAsAnswered
<1>1. IInv => CookieAsAnswered
  <2> SUFFICES ASSUME IInv PROVE CookieAsAnswered
    OBVIOUS
  <2>1. \A b, id, u : Opener(opened, githubAuth, b, id, u) <=> OpenedFor(b, id, u)
    BY DEF Opener, OpenedFor
  <2>2. ASSUME NEW b \in Browsers, NEW s \in SessionsOf(cookie[b])
        PROVE  OpenedFor(b, s.id, s.user)
    BY <2>1 DEF IInv, OwnInv, IdForBrowser, IsOwn, SessionsOf
  <2>3. ASSUME NEW t \in Tabs, kind[t] = "dashboard", user[t] # NoUser
        PROVE  OpenedFor(BrowserOf[t], sent[t], user[t])
    BY <2>1, <2>3 DEF IInv, OwnInv, Page
  <2> QED
    BY <2>2, <2>3 DEF CookieAsAnswered
<1> QED
  BY <1>1, SignInInvariant, PTL

-----------------------------------------------------------------------------
(* How a session is lost from its browser. *)

\* A handler that is to replace or delete the cookie it was sent has found, or
\* made, its session gone, or could not ask for it.
Waiting(t) ==
  /\ pc[t] = "check" => kind[t] \in {"authorize", "callback"}
  /\ pc[t] \in {"check", "delete", "middleware"} => reply[t] = Keep
  /\ pc[t] \in {"exchange", "lookup", "user", "auth", "session"} =>
       SessionsOf(sent[t]) = {}
  /\ pc[t] = "respond" /\ reply[t] # Keep =>
       \/ SessionsOf(sent[t]) = {}
       \/ kind[t] \in {"authorize", "callback"} /\ reply[t] = NoSession

WaitingInv == \A t \in Tabs : Waiting(t)

\* Init establishes WaitingInv.
LEMMA InitWaiting == Init => WaitingInv
  BY DEF Init, WaitingInv, Waiting

\* Every step keeps WaitingInv: no id is used twice.
LEMMA WaitingStep == IInv /\ WaitingInv /\ [Next]_vars => WaitingInv'
<1> SUFFICES ASSUME IInv, WaitingInv, [Next]_vars PROVE WaitingInv'
  OBVIOUS
<1> USE SignInAssumption DEF IInv, TypeOK, IssuedIds, NoSession, Keep, WaitingInv,
      Waiting, SessionsOf, tables, handler, history
<1>1. ASSUME NEW t \in Tabs, NEW k \in Kinds, Send(t, k) PROVE WaitingInv'
  <2> DEFINE step == FirstStep(k, cookie[BrowserOf[t]])
  <2>1. /\ step \in {"check", "respond", "delete", "middleware"}
        /\ step = "check" => k \in {"authorize", "callback"}
    BY DEF FirstStep, Kinds
  <2>2. /\ pc' = [pc EXCEPT ![t] = step]
        /\ sent' = [sent EXCEPT ![t] = cookie[BrowserOf[t]]]
        /\ kind' = [kind EXCEPT ![t] = k]
        /\ reply' = [reply EXCEPT ![t] = Keep]
        /\ UNCHANGED sessions
    BY <1>1 DEF Send
  <2> HIDE DEF step
  <2> QED
    BY <2>1, <2>2
<1>2. ASSUME NEW t \in Tabs, Receive(t) PROVE WaitingInv'
  BY <1>2 DEF Receive
<1>3. ASSUME NEW t \in Tabs, Lose(t) PROVE WaitingInv'
  BY <1>3 DEF Lose
<1>4. ASSUME NEW t \in Tabs, Fail(t) PROVE WaitingInv'
  BY <1>4 DEF Fail, Goto, Steps
<1>5. ASSUME NEW t \in Tabs, CheckIsSignedIn(t) PROVE WaitingInv'
  BY <1>5 DEF CheckIsSignedIn, Goto
<1>6. ASSUME NEW t \in Tabs, Exchange(t) PROVE WaitingInv'
  BY <1>6 DEF Exchange, Goto
<1>7. ASSUME NEW t \in Tabs, LookupUser(t) PROVE WaitingInv'
  BY <1>7 DEF LookupUser, Goto
<1>8. ASSUME NEW t \in Tabs, InsertUser(t) PROVE WaitingInv'
  BY <1>8 DEF InsertUser, Goto
<1>9. ASSUME NEW t \in Tabs, InsertAuth(t) PROVE WaitingInv'
  BY <1>9 DEF InsertAuth, Goto
<1>10. ASSUME NEW t \in Tabs, InsertSession(t) PROVE WaitingInv'
  BY <1>10 DEF InsertSession, Goto
<1>11. ASSUME NEW t \in Tabs, Signout(t) PROVE WaitingInv'
  BY <1>11 DEF Signout, Goto
<1>12. ASSUME NEW t \in Tabs, Middleware(t) PROVE WaitingInv'
  BY <1>12 DEF Middleware, Goto
<1>13. ASSUME NEW b \in Browsers, Expire(b) PROVE WaitingInv'
  BY <1>13 DEF Expire
<1>14. ASSUME Kill PROVE WaitingInv'
  BY <1>14 DEF Kill
<1>15. CASE UNCHANGED vars
  BY <1>15 DEF vars
<1> QED
  BY <1>1, <1>2, <1>3, <1>4, <1>5, <1>6, <1>7, <1>8, <1>9,
     <1>10, <1>11, <1>12, <1>13, <1>14, <1>15 DEF Next, Handle

\* The ways in which a session that stays in its table may lose its cookie.
Lost(id) ==
  \/ Kill
  \/ \E b \in Browsers : Expire(b)
  \/ \E t \in Tabs : Lose(t) \/ ReceivesLate(t, id) \/ ReceivesFailedCheck(t)

\* Only an answer that is received, or lost, takes a cookie from a browser.
LEMMA HeldStep ==
  ASSUME IInv, WaitingInv, [Next]_vars, NEW s \in sessions \cap sessions',
         Held(s.id), ~Held(s.id)'
  PROVE  Lost(s.id)
<1>1. s.id \in IssuedIds /\ s.id # NoSession /\ s.id # Keep
  BY DEF IInv, TypeOK, IssuedIds, NoSession, Keep
<1>2. ASSUME NEW t \in Tabs, Receive(t) PROVE Lost(s.id)
  <2>1. /\ pc[t] = "respond" /\ pc' = [pc EXCEPT ![t] = "idle"]
        /\ cookie' = IF reply[t] = Keep THEN cookie
                     ELSE [cookie EXCEPT ![BrowserOf[t]] = reply[t]]
        /\ UNCHANGED reply
        /\ BrowserOf[t] \in Browsers
    BY <1>2, SignInAssumption DEF Receive
  <2>2. reply[t] # s.id /\ reply[t] # Keep /\ cookie[BrowserOf[t]] = s.id
    BY <1>1, <2>1 DEF Held, IInv, TypeOK
  <2>3. CASE sent[t] # s.id
    BY <1>2, <2>3 DEF Lost, ReceivesLate
  <2>4. CASE sent[t] = s.id
    <3>1. SessionsOf(sent[t]) # {}
      BY <2>4 DEF SessionsOf
    <3>2. kind[t] \in {"authorize", "callback"} /\ reply[t] = NoSession
      BY <2>1, <2>2, <3>1 DEF WaitingInv, Waiting
    <3> QED
      BY <1>2, <3>2 DEF Lost, ReceivesFailedCheck
  <2> QED
    BY <2>3, <2>4
<1>3. ASSUME NEW t \in Tabs, Fail(t) \/ Handle(t) PROVE FALSE
  <2>1. pc[t] # "respond" /\ UNCHANGED cookie
    BY <1>3 DEF Fail, Handle, CheckIsSignedIn, Exchange, LookupUser, InsertUser,
       InsertAuth, InsertSession, Signout, Middleware
  <2>2. \A o \in Tabs \ {t} : pc'[o] = pc[o] /\ reply'[o] = reply[o]
    BY <1>3 DEF Fail, Handle, CheckIsSignedIn, Exchange, LookupUser, InsertUser,
       InsertAuth, InsertSession, Signout, Middleware, Goto, IInv, TypeOK
  <2> QED
    BY <2>1, <2>2 DEF Held
<1>4. ASSUME NEW t \in Tabs, NEW k \in Kinds, Send(t, k) PROVE FALSE
  <2>1. pc[t] = "idle" /\ UNCHANGED cookie
    BY <1>4 DEF Send
  <2>2. \A o \in Tabs \ {t} : pc'[o] = pc[o] /\ reply'[o] = reply[o]
    BY <1>4 DEF Send, IInv, TypeOK
  <2> QED
    BY <2>1, <2>2 DEF Held
<1>5. CASE UNCHANGED vars
  BY <1>5 DEF vars, handler, Held
<1> QED
  BY <1>2, <1>3, <1>4, <1>5 DEF Next, Lost

\* Whatever goes wrong, a session that stays in its table loses its cookie in no
\* other way than those of HeldUntilLost: the code has no other way of leaving one
\* that nobody has the cookie of.
THEOREM SessionsAreHeldUntilLost == Spec => HeldUntilLost
<1>1. Init => WaitingInv
  BY InitWaiting
<1>2. IInv /\ WaitingInv /\ [Next]_vars => WaitingInv'
  BY WaitingStep
<1>3. IInv /\ WaitingInv /\ [Next]_vars =>
        [\A s \in sessions \cap sessions' : Held(s.id) /\ ~Held(s.id)' =>
            \/ Kill
            \/ \E b \in Browsers : Expire(b)
            \/ \E t \in Tabs : \/ Lose(t)
                                \/ ReceivesLate(t, s.id)
                                \/ ReceivesFailedCheck(t)]_vars
  BY HeldStep DEF Lost
<1> QED
  BY <1>1, <1>2, <1>3, SignInInvariant, PTL DEF Spec, HeldUntilLost

=============================================================================
