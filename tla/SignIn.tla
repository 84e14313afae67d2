------------------------------- MODULE SignIn -------------------------------
(***************************************************************************)
(* The web server's handlers around a session: authorize, callback,        *)
(* sign-out, and the Auth middleware in front of /dashboard.               *)
(*                                                                         *)
(* echo runs each request in a goroutine of its own; they meet only in the *)
(* tables user, github_auth_data and session and in the browser's cookie.  *)
(* No handler opens a database transaction: each statement is a step, and  *)
(* what one has read may be stale in the next.  A step of a handler ends   *)
(* at its next statement or at the response.                               *)
(***************************************************************************)
EXTENDS Integers, FiniteSets

CONSTANTS
  Tabs,          \* what sends requests, one at a time each
  Browsers,      \* what keeps a cookie
  BrowserOf,     \* BrowserOf[t]: the browser of tab t
  Accounts,      \* GitHub accounts
  Nobody,        \* github_id 0: what an error document of GitHub decodes to
  Disturbances,  \* subset of {"expire", "lose", "fail", "kill", "github"}
  MaxRequests    \* bound: requests ever sent

ASSUME SignInAssumption ==
  /\ BrowserOf \in [Tabs -> Browsers]
  /\ Nobody \notin Accounts
  /\ Disturbances \subseteq {"expire", "lose", "fail", "kill", "github"}
  /\ MaxRequests \in Nat

VARIABLES
  users,       \* ids of table "user"
  githubAuth,  \* github_auth_data: records of an account and a user
  sessions,    \* session: records of an id and a user
  nextUser,    \* the sequence behind user.id
  nextSession, \* uuid_generate_v4() never returns an id again
  cookie,      \* cookie[b]: the auth cookie, NoSession when there is none
  sent,        \* sent[t]: the cookie that came with the request
  kind,        \* kind[t]: the route
  pc,          \* pc[t]: the handler's next statement
  account,     \* account[t]: userData.Id
  user,        \* user[t]: savedUser.Id, UserId of AuthenticatedContext
  reply,       \* reply[t]: the cookie the response sets, or Keep
  requests,    \* requests sent so far
  opened       \* history: the sessions ever opened, each with the browser whose
               \* callback opened it and the account GitHub had answered with

tables  == <<users, githubAuth, sessions, nextUser, nextSession>>
handler == <<sent, kind, pc, account, user, reply>>
history == <<requests, opened>>
vars    == <<tables, cookie, handler, history>>

NoSession == 0
NoUser == 0
Keep == -1

\* The page /signin, a callback without a code, and one of a provider other than
\* GitHub check the cookie and answer, as "authorize" does.
Kinds == {"authorize", "callback", "signout", "dashboard"}

Init ==
  /\ users = {}  /\ githubAuth = {}  /\ sessions = {}
  /\ nextUser = 1  /\ nextSession = 1
  /\ cookie = [b \in Browsers |-> NoSession]
  /\ sent = [t \in Tabs |-> NoSession]
  /\ kind = [t \in Tabs |-> "authorize"]
  /\ pc = [t \in Tabs |-> "idle"]
  /\ account = [t \in Tabs |-> Nobody]
  /\ user = [t \in Tabs |-> NoUser]
  /\ reply = [t \in Tabs |-> Keep]
  /\ requests = 0
  /\ opened = {}

-----------------------------------------------------------------------------
(* Browsers and the network. *)

\* The handler of a route starts with the cookie: sign-out and the middleware
\* redirect to /signin at once when there is none.
FirstStep(k, c) ==
  CASE k \in {"authorize", "callback"} -> "check"
    [] c = NoSession                   -> "respond"
    [] k = "signout"                   -> "delete"
    [] k = "dashboard"                 -> "middleware"

Send(t, k) ==
  /\ pc[t] = "idle"
  /\ requests < MaxRequests
  /\ requests' = requests + 1
  /\ sent' = [sent EXCEPT ![t] = cookie[BrowserOf[t]]]
  /\ kind' = [kind EXCEPT ![t] = k]
  /\ pc' = [pc EXCEPT ![t] = FirstStep(k, cookie[BrowserOf[t]])]
  /\ account' = [account EXCEPT ![t] = Nobody]
  /\ user' = [user EXCEPT ![t] = NoUser]
  /\ reply' = [reply EXCEPT ![t] = Keep]
  /\ UNCHANGED <<tables, cookie, opened>>

\* The browser takes the cookie of the response, whatever it has by now.
Receive(t) ==
  /\ pc[t] = "respond"
  /\ pc' = [pc EXCEPT ![t] = "idle"]
  /\ cookie' = IF reply[t] = Keep THEN cookie
               ELSE [cookie EXCEPT ![BrowserOf[t]] = reply[t]]
  /\ UNCHANGED <<tables, sent, kind, account, user, reply, history>>

Lose(t) ==
  /\ "lose" \in Disturbances
  /\ pc[t] = "respond"
  /\ pc' = [pc EXCEPT ![t] = "idle"]
  /\ UNCHANGED <<tables, cookie, sent, kind, account, user, reply, history>>

\* MaxAge of the cookie has passed.
Expire(b) ==
  /\ "expire" \in Disturbances
  /\ cookie[b] # NoSession
  /\ cookie' = [cookie EXCEPT ![b] = NoSession]
  /\ UNCHANGED <<tables, handler, history>>

\* The server ends and starts again: the requests it had are not answered.
Kill ==
  /\ "kill" \in Disturbances
  /\ \E t \in Tabs : pc[t] # "idle"
  /\ pc' = [t \in Tabs |-> "idle"]
  /\ UNCHANGED <<tables, cookie, sent, kind, account, user, reply, history>>

-----------------------------------------------------------------------------
(* The handlers. *)

Goto(t, step) == pc' = [pc EXCEPT ![t] = step]

SessionsOf(id) == {s \in sessions : s.id = id}

\* A statement, or the call to GitHub, fails for reasons of its own: 500, after
\* checkIsSignedIn with the cookie deleted.
Fail(t) ==
  /\ "fail" \in Disturbances
  /\ pc[t] \notin {"idle", "respond"}
  /\ Goto(t, "respond")
  /\ reply' = [reply EXCEPT ![t] = IF pc[t] = "check" /\ sent[t] # NoSession
                                   THEN NoSession ELSE @]
  /\ UNCHANGED <<tables, cookie, sent, kind, account, user, history>>

\* checkIsSignedIn, and the redirect that follows: to the dashboard, to GitHub,
\* or on to the code GitHub sent.
CheckIsSignedIn(t) ==
  /\ pc[t] = "check"
  /\ \/ /\ SessionsOf(sent[t]) # {}
        /\ Goto(t, "respond")
        /\ UNCHANGED reply
     \/ /\ SessionsOf(sent[t]) = {}
        /\ Goto(t, IF kind[t] = "callback" THEN "exchange" ELSE "respond")
        /\ reply' = [reply EXCEPT ![t] =
                       IF sent[t] = NoSession THEN Keep ELSE NoSession]
  /\ UNCHANGED <<tables, cookie, sent, kind, account, user, history>>

\* The account GitHub answers with is that of whoever the code in the URL was
\* given to: authorize sends no state, so callback takes any code there is.
\* getGithubAccessToken and getGithubUserData look at no status: an error
\* document decodes to zero values.
Answers ==
  Accounts \cup (IF "github" \in Disturbances THEN {Nobody} ELSE {})

Exchange(t) ==
  /\ pc[t] = "exchange"
  /\ \E a \in Answers : account' = [account EXCEPT ![t] = a]
  /\ Goto(t, "lookup")
  /\ UNCHANGED <<tables, cookie, sent, kind, user, reply, history>>

\* Mutant: the query without its WHERE.
RowsOfAnyone(a) == githubAuth

RowsOf(a) == {r \in githubAuth : r.account = a}

\* Mutant: the row that is found is not read into savedUser.
LookupUserUnread(t) ==
  /\ pc[t] = "lookup"
  /\ Goto(t, IF RowsOf(account[t]) = {} THEN "user" ELSE "session")
  /\ UNCHANGED <<tables, cookie, sent, kind, account, user, reply, history>>

\* Mutant: sql.ErrNoRows is an error like the others.
LookupUserMustExist(t) ==
  /\ pc[t] = "lookup"
  /\ \/ /\ RowsOf(account[t]) = {}
        /\ Goto(t, "respond")
        /\ UNCHANGED user
     \/ \E r \in RowsOf(account[t]) :
          /\ user' = [user EXCEPT ![t] = r.user]
          /\ Goto(t, "session")
  /\ UNCHANGED <<tables, cookie, sent, kind, account, reply, history>>

LookupUser(t) ==
  /\ pc[t] = "lookup"
  /\ \/ /\ RowsOf(account[t]) = {}
        /\ Goto(t, "user")
        /\ UNCHANGED user
     \/ \E r \in RowsOf(account[t]) :
          /\ user' = [user EXCEPT ![t] = r.user]
          /\ Goto(t, "session")
  /\ UNCHANGED <<tables, cookie, sent, kind, account, reply, history>>

InsertUser(t) ==
  /\ pc[t] = "user"
  /\ users' = users \cup {nextUser}
  /\ nextUser' = nextUser + 1
  /\ user' = [user EXCEPT ![t] = nextUser]
  /\ Goto(t, "auth")
  /\ UNCHANGED <<githubAuth, sessions, nextSession, cookie, sent, kind, account,
                 reply, history>>

\* github_id is the PRIMARY KEY of github_auth_data.
AuthConflict(t) == RowsOf(account[t]) # {}

\* Mutant: the error of the second INSERT is not looked at.
InsertAuthUnchecked(t) ==
  /\ pc[t] = "auth"
  /\ Goto(t, "session")
  /\ githubAuth' = IF AuthConflict(t) THEN githubAuth
                   ELSE githubAuth \cup {[account |-> account[t], user |-> user[t]]}
  /\ UNCHANGED <<users, sessions, nextUser, nextSession, cookie, sent, kind,
                 account, user, reply, history>>

InsertAuth(t) ==
  /\ pc[t] = "auth"
  /\ \/ /\ AuthConflict(t)
        /\ Goto(t, "respond")
        /\ UNCHANGED githubAuth
     \/ /\ ~AuthConflict(t)
        /\ githubAuth' =
             githubAuth \cup {[account |-> account[t], user |-> user[t]]}
        /\ Goto(t, "session")
  /\ UNCHANGED <<users, sessions, nextUser, nextSession, cookie, sent, kind,
                 account, user, reply, history>>

\* session.user_id is UNIQUE.
SessionConflict(t) == \E s \in sessions : s.user = user[t]

InsertSession(t) ==
  /\ pc[t] = "session"
  /\ Goto(t, "respond")
  /\ \/ /\ SessionConflict(t)
        /\ UNCHANGED <<sessions, nextSession, reply, opened>>
     \/ /\ ~SessionConflict(t)
        /\ sessions' = sessions \cup {[id |-> nextSession, user |-> user[t]]}
        /\ nextSession' = nextSession + 1
        /\ reply' = [reply EXCEPT ![t] = nextSession]
        /\ opened' = opened \cup {[id |-> nextSession, browser |-> BrowserOf[t],
                                   account |-> account[t]]}
  /\ UNCHANGED <<users, githubAuth, nextUser, cookie, sent, kind, account, user,
                 requests>>

\* Mutant: only the cookie is deleted.
SignoutCookieOnly(t) ==
  /\ pc[t] = "delete"
  /\ reply' = [reply EXCEPT ![t] = NoSession]
  /\ Goto(t, "respond")
  /\ UNCHANGED <<tables, cookie, sent, kind, account, user, history>>

Signout(t) ==
  /\ pc[t] = "delete"
  /\ sessions' = sessions \ SessionsOf(sent[t])
  /\ reply' = [reply EXCEPT ![t] = NoSession]
  /\ Goto(t, "respond")
  /\ UNCHANGED <<users, githubAuth, nextUser, nextSession, cookie, sent, kind,
                 account, user, history>>

\* Auth: the page is served for the session's user, or redirected to /signin.
Middleware(t) ==
  /\ pc[t] = "middleware"
  /\ Goto(t, "respond")
  /\ \/ /\ SessionsOf(sent[t]) = {}
        /\ UNCHANGED user
     \/ \E s \in SessionsOf(sent[t]) : user' = [user EXCEPT ![t] = s.user]
  /\ UNCHANGED <<tables, cookie, sent, kind, account, reply, history>>

Handle(t) ==
  \/ CheckIsSignedIn(t)
  \/ Exchange(t)
  \/ LookupUser(t)
  \/ InsertUser(t)
  \/ InsertAuth(t)
  \/ InsertSession(t)
  \/ Signout(t)
  \/ Middleware(t)

Next ==
  \/ \E t \in Tabs : \/ \E k \in Kinds : Send(t, k)
                     \/ Receive(t)
                     \/ Lose(t)
                     \/ Fail(t)
                     \/ Handle(t)
  \/ \E b \in Browsers : Expire(b)
  \/ Kill

Spec == Init /\ [][Next]_vars

\* net/http runs every handler; the database and GitHub answer.
FairSpec == Spec /\ \A t \in Tabs : WF_vars(Handle(t) \/ Receive(t))

-----------------------------------------------------------------------------
(* Properties. *)

Steps == {"idle", "check", "exchange", "lookup", "user", "auth", "session",
          "delete", "middleware", "respond"}

IssuedIds == 1 .. nextSession - 1

\* Every user id and every session id that a row, a cookie or a handler holds
\* was handed out by the database, and a row names only a user that exists (the
\* foreign keys).
TypeOK ==
  /\ nextUser \in Nat \ {0}  /\ nextSession \in Nat \ {0}
  /\ users \subseteq 1 .. nextUser - 1
  /\ githubAuth \subseteq [account : Accounts \cup {Nobody}, user : users]
  /\ sessions \subseteq [id : IssuedIds, user : users]
  /\ cookie \in [Browsers -> IssuedIds \cup {NoSession}]
  /\ sent \in [Tabs -> IssuedIds \cup {NoSession}]
  /\ kind \in [Tabs -> Kinds]
  /\ pc \in [Tabs -> Steps]
  /\ account \in [Tabs -> Accounts \cup {Nobody}]
  /\ user \in [Tabs -> users \cup {NoUser}]
  /\ reply \in [Tabs -> IssuedIds \cup {NoSession, Keep}]
  /\ requests \in 0 .. MaxRequests
  /\ opened \subseteq [id : IssuedIds, browser : Browsers,
                       account : Accounts \cup {Nobody}]

\* However the callbacks of one new account interleave, the account ends with
\* one user and a user with one account, and no session is ever opened for a
\* user left over from the sign-in that lost the race (or from one that died
\* between its two inserts): nobody could sign in as that user again.
SessionsResolve ==
  /\ \A r1, r2 \in githubAuth :
        r1.account = r2.account \/ r1.user = r2.user => r1 = r2
  /\ \A s1, s2 \in sessions : s1.id = s2.id \/ s1.user = s2.user => s1 = s2
  /\ \A s \in sessions : \E r \in githubAuth : r.user = s.user

\* Session id, which says user u, was opened by a callback of browser b that
\* GitHub had answered with an account of u.
OpenedFor(b, id, u) ==
  \E o \in opened :
    /\ o.id = id /\ o.browser = b
    /\ [account |-> o.account, user |-> u] \in githubAuth

\* Whatever is delayed, lost, repeated or restarted, and whosever codes arrive
\* where, a browser's cookie leads to no session but one that a callback of this
\* browser opened, and to the user of the account it was opened with; and the
\* dashboard is served for that user, although session and cookie may have
\* changed since the request was sent.
CookieAsAnswered ==
  /\ \A b \in Browsers : \A s \in SessionsOf(cookie[b]) : OpenedFor(b, s.id, s.user)
  /\ \A t \in Tabs : kind[t] = "dashboard" /\ user[t] # NoUser =>
                       OpenedFor(BrowserOf[t], sent[t], user[t])

\* A browser has the cookie of session id, or is being sent it.
Held(id) ==
  \/ \E b \in Browsers : cookie[b] = id
  \/ \E t \in Tabs : pc[t] = "respond" /\ reply[t] = id

\* The answer t receives takes the cookie of session id from its browser, which
\* has got it since t was sent.
ReceivesLate(t, id) == Receive(t) /\ sent[t] # id

\* It takes it because checkIsSignedIn could not ask for the session.
ReceivesFailedCheck(t) ==
  Receive(t) /\ kind[t] \in {"authorize", "callback"} /\ reply[t] = NoSession

\* session.user_id is UNIQUE and a callback ends no older session: one that stays
\* in the table when its cookie goes keeps its user out for good.  That comes
\* about in no other way than these: the cookie expires, the answer that sets it
\* is lost, alone or with the server, an answer of another tab comes late, or a
\* failed query of checkIsSignedIn deletes it.
HeldUntilLost ==
  [][\A s \in sessions \cap sessions' : Held(s.id) /\ ~Held(s.id)' =>
        \/ Kill
        \/ \E b \in Browsers : Expire(b)
        \/ \E t \in Tabs : \/ Lose(t)
                            \/ ReceivesLate(t, s.id)
                            \/ ReceivesFailedCheck(t)]_vars

HasSession(a) ==
  \E r \in githubAuth, s \in sessions : r.account = a /\ r.user = s.user

\* When several browsers sign in with one new account at the same time, all but
\* one of the callbacks may answer 500, never all of them: the account gets a
\* session.
SignInCompletes ==
  \A t \in Tabs, a \in Accounts :
    pc[t] = "lookup" /\ account[t] = a ~> HasSession(a)

=============================================================================
