---------------------------- MODULE OAuthSession ----------------------------
(***************************************************************************)
(* The session of one browser: the cookies hindsight_session,              *)
(* hindsight_refresh and hm_oauth_state, the endpoints of /auth that set   *)
(* and delete them, and the requests that are under way to the manager and *)
(* from there to the platform.                                             *)
(*                                                                         *)
(* The platform issues the tokens in pairs.  It accepts a refresh token    *)
(* once and gives a new pair for it.  The manager never asks it about      *)
(* access tokens: these hold until they expire.                            *)
(***************************************************************************)
CONSTANTS
    Tabs,   \* tabs of the browser in which a login can be under way
    Calls,  \* requests to /auth/refresh and /auth/logout under way
    Pairs,  \* pairs of an access and a refresh token; reused when forgotten
    None

ASSUME NoneAssumption == None \notin Tabs /\ None \notin Pairs

VARIABLES
    cookies, \* of the browser: whether it has a session that has not expired,
             \* the refresh token and the state, which stands as its tab
    login,   \* the login of each tab
    call,    \* the requests to /auth/refresh and /auth/logout
    alive,   \* the pairs whose refresh token the platform accepts
    out,     \* history: the platform revoked the sessions, no login since
    fine     \* history: the browser has logged in, and since then nobody logged out,
             \* no new pair for its refresh cookie was lost, and none expired

vars == <<cookies, login, call, alive, out, fine>>

\* "out" is a login whose browser is at the platform; "lone" one that no other
\* login overlapped so far and whose state cookie is not over its ten minutes.
\* "exchanging" and "answered" are the two halves of the callback.
NoLogin == [stage |-> "none"]
Out(lone) == [stage |-> "out", lone |-> lone]
Exchanging == [stage |-> "exchanging"]
Answered(p) == [stage |-> "answered", pair |-> p]
Logins == {NoLogin, Exchanging} \union {Out(b) : b \in BOOLEAN}
              \union {Answered(p) : p \in Pairs}

\* A call carries the refresh cookie of the moment it was sent.
NoCall == [op |-> "none"]
Refresh(p) == [op |-> "refresh", pair |-> p]
Refreshed(p, q) == [op |-> "refreshed", pair |-> p, new |-> q]
Logout(p) == [op |-> "logout", pair |-> p]
LoggedOut == [op |-> "loggedOut"]
CallStates == {NoCall, LoggedOut} \union {Refresh(p) : p \in Pairs}
                  \union {Refreshed(p, q) : p, q \in Pairs}
                  \union {Logout(p) : p \in Pairs}

\* get_current_user: the cookie's signature and expiry, and nothing else.
SignedIn == cookies.session

Held(p) ==
    \/ cookies.refresh = p
    \/ \E t \in Tabs : login[t] = Answered(p)
    \/ \E c \in Calls : \/ call[c] \in {Refresh(p), Logout(p)}
                        \/ \E q \in Pairs : call[c] \in {Refreshed(p, q), Refreshed(q, p)}

\* A pair that the platform gave and whose answer is not yet with the browser.
OnItsWay(p) ==
    \/ \E t \in Tabs : login[t] = Answered(p)
    \/ \E c \in Calls, q \in Pairs : call[c] = Refreshed(q, p)
Forgotten == {p \in Pairs \ alive : ~Held(p)}

Init ==
    /\ cookies = [session |-> FALSE, refresh |-> None, state |-> None]
    /\ login = [t \in Tabs |-> NoLogin]
    /\ call = [c \in Calls |-> NoCall]
    /\ alive = {}
    /\ out = FALSE
    /\ fine = FALSE

\* _set_session_cookies: both cookies of the session.
WithPair(p) == [cookies EXCEPT !.session = TRUE, !.refresh = p]

-----------------------------------------------------------------------------
(* Logins.                                                                 *)

\* There is one cookie for the state of all logins.
NewState(t) == [cookies EXCEPT !.state = t]
StateMatches(t) == cookies.state = t

\* login_redirect, to which pages without a session lead, and login_page.
StartLogin(t) ==
    LET others == {u \in Tabs : login[u] # NoLogin} IN
    /\ login[t] = NoLogin
    /\ cookies' = NewState(t)
    /\ login' = [u \in Tabs |->
                    IF u = t THEN Out(others = {})
                    ELSE IF login[u] = Out(TRUE) THEN Out(FALSE)
                    ELSE login[u]]
    /\ UNCHANGED <<call, alive, out, fine>>

\* The user gives up, or the platform does not sign the user in.
AbandonLogin(t) ==
    /\ login[t].stage = "out"
    /\ login' = [login EXCEPT ![t] = NoLogin]
    /\ UNCHANGED <<cookies, call, alive, out, fine>>

\* oauth_callback up to the exchange; 400 when the state does not match.
Callback(t) ==
    /\ login[t].stage = "out"
    /\ login' = [login EXCEPT ![t] = IF StateMatches(t) THEN Exchanging ELSE NoLogin]
    /\ UNCHANGED <<cookies, call, alive, out, fine>>

\* The platform takes the code.
Exchange(t) ==
    /\ login[t] = Exchanging
    /\ \E p \in Forgotten :
          /\ login' = [login EXCEPT ![t] = Answered(p)]
          /\ alive' = alive \union {p}
    /\ out' = FALSE
    /\ UNCHANGED <<cookies, call, fine>>

\* The exchange fails or its answer is lost, on the way to the manager (401) or
\* to the browser: no cookie changes.
LoginFails(t) ==
    /\ login[t].stage \in {"exchanging", "answered"}
    /\ login' = [login EXCEPT ![t] = NoLogin]
    /\ UNCHANGED <<cookies, call, alive, out, fine>>

\* The answer of oauth_callback deletes whatever state is in the cookie then.
LoginAnswers(t) ==
    /\ login[t].stage = "answered"
    /\ cookies' = [WithPair(login[t].pair) EXCEPT !.state = None]
    /\ login' = [login EXCEPT ![t] = NoLogin]
    /\ fine' = \A p \in Pairs : OnItsWay(p) => p \in alive
    /\ UNCHANGED <<call, alive, out>>

-----------------------------------------------------------------------------
(* Refresh.                                                                *)

\* Slip: a request without the cookie is passed on too.
SendRefreshUnchecked(c) ==
    /\ call[c] = NoCall
    /\ call' = [call EXCEPT ![c] = Refresh(cookies.refresh)]
    /\ UNCHANGED <<cookies, login, alive, out, fine>>

\* Without a refresh cookie the answer is 401 at once.
SendRefresh(c) ==
    /\ call[c] = NoCall
    /\ cookies.refresh # None
    /\ call' = [call EXCEPT ![c] = Refresh(cookies.refresh)]
    /\ UNCHANGED <<cookies, login, alive, out, fine>>

\* The platform takes the refresh token and gives a pair for it.
Rotate(c) ==
    /\ call[c].op = "refresh"
    /\ call[c].pair \in alive
    /\ \E q \in Forgotten :
          /\ call' = [call EXCEPT ![c] = Refreshed(call[c].pair, q)]
          /\ alive' = (alive \ {call[c].pair}) \union {q}
    /\ UNCHANGED <<cookies, login, out, fine>>

\* Slip: the 401 signs the browser out.
ClearsOnFailure(c) ==
    /\ call[c].op = "refresh"
    /\ call' = [call EXCEPT ![c] = NoCall]
    /\ cookies' = [cookies EXCEPT !.session = FALSE, !.refresh = None]
    /\ UNCHANGED <<login, alive, out, fine>>

\* The platform refuses or does not answer: 401, and the cookies stay.
RefreshFails(c) ==
    /\ call[c].op = "refresh"
    /\ call' = [call EXCEPT ![c] = NoCall]
    /\ UNCHANGED <<cookies, login, alive, out, fine>>

\* The new pair is lost, between the platform and the manager or after it.
RefreshLost(c) ==
    /\ call[c].op = "refreshed"
    /\ call' = [call EXCEPT ![c] = NoCall]
    /\ fine' = (fine /\ call[c].pair # cookies.refresh)
    /\ UNCHANGED <<cookies, login, alive, out>>

Renewed(c) == WithPair(call[c].new)

RefreshAnswers(c) ==
    /\ call[c].op = "refreshed"
    /\ cookies' = Renewed(c)
    /\ call' = [call EXCEPT ![c] = NoCall]
    /\ UNCHANGED <<login, alive, out, fine>>

-----------------------------------------------------------------------------
(* Logout.                                                                 *)

\* Without a refresh cookie the platform is not asked.
SendLogout(c) ==
    /\ call[c] = NoCall
    /\ call' = [call EXCEPT ![c] = IF cookies.refresh = None THEN LoggedOut
                                   ELSE Logout(cookies.refresh)]
    /\ UNCHANGED <<cookies, login, alive, out, fine>>

\* Slip: revoke_token, only the one refresh token.
RevokedAlone(p) == alive \intersect {p}

\* revoke_user_session: every refresh token of the user.
Revoked(p) == alive

RevokeSession(c) ==
    /\ call[c].op = "logout"
    /\ alive' = alive \ Revoked(call[c].pair)
    /\ out' = TRUE
    /\ call' = [call EXCEPT ![c] = LoggedOut]
    /\ fine' = FALSE
    /\ UNCHANGED <<cookies, login>>

\* _post_json swallows every failure, and logout does not look at the result.
RevokeFails(c) ==
    /\ call[c].op = "logout"
    /\ call' = [call EXCEPT ![c] = LoggedOut]
    /\ UNCHANGED <<cookies, login, alive, out, fine>>

\* Slip: the state goes too.
ClearedAll == [session |-> FALSE, refresh |-> None, state |-> None]

\* The session's cookies go, the state of a login stays.
Cleared == [cookies EXCEPT !.session = FALSE, !.refresh = None]

LogoutAnswers(c) ==
    /\ call[c] = LoggedOut
    /\ cookies' = Cleared
    /\ call' = [call EXCEPT ![c] = NoCall]
    /\ fine' = FALSE
    /\ UNCHANGED <<login, alive, out>>

\* logout_get, in the platform's frame: no revocation.
LogoutGet ==
    /\ cookies' = Cleared
    /\ fine' = FALSE
    /\ UNCHANGED <<login, call, alive, out>>

-----------------------------------------------------------------------------
(* Time: 15 minutes, 7 days and 10 minutes.  A cookie goes with its token; *)
(* an answer that comes late counts as fresh when it comes.                *)

AccessExpires ==
    /\ cookies.session
    /\ cookies' = [cookies EXCEPT !.session = FALSE]
    /\ UNCHANGED <<login, call, alive, out, fine>>

RefreshExpires(p) ==
    /\ p \in alive \/ cookies.refresh = p
    /\ alive' = alive \ {p}
    /\ cookies' = IF cookies.refresh = p THEN [cookies EXCEPT !.refresh = None] ELSE cookies
    /\ fine' = (fine /\ ~Held(p))
    /\ UNCHANGED <<login, call, out>>

StateExpires ==
    /\ cookies.state # None
    /\ cookies' = [cookies EXCEPT !.state = None]
    /\ login' = [t \in Tabs |-> IF login[t] = Out(TRUE) THEN Out(FALSE) ELSE login[t]]
    /\ UNCHANGED <<call, alive, out, fine>>

-----------------------------------------------------------------------------
LoginNext(t) ==
    \/ StartLogin(t) \/ AbandonLogin(t) \/ Callback(t)
    \/ Exchange(t) \/ LoginFails(t) \/ LoginAnswers(t)
CallNext(c) ==
    \/ SendRefresh(c) \/ Rotate(c) \/ RefreshFails(c) \/ RefreshLost(c) \/ RefreshAnswers(c)
    \/ SendLogout(c) \/ RevokeSession(c) \/ RevokeFails(c) \/ LogoutAnswers(c)
Expiry == AccessExpires \/ StateExpires \/ \E p \in Pairs : RefreshExpires(p)

Next ==
    \/ \E t \in Tabs : LoginNext(t)
    \/ \E c \in Calls : CallNext(c)
    \/ LogoutGet
    \/ Expiry

\* Only time is sure to go on.
Spec == Init /\ [][Next]_vars /\ WF_vars(AccessExpires)

-----------------------------------------------------------------------------
\* The types: a call never carries a token that is none.
TypeOK ==
    /\ cookies \in [session : BOOLEAN, refresh : Pairs \union {None},
                    state : Tabs \union {None}]
    /\ login \in [Tabs -> Logins]
    /\ call \in [Calls -> CallStates]
    /\ alive \subseteq Pairs
    /\ out \in BOOLEAN
    /\ fine \in BOOLEAN

\* A login that no other overlaps finds its state in the cookie, within ten
\* minutes: refreshes, logouts and failed callbacks of the other tabs leave it
\* alone (auth.py:87, 103, 123).
LoneLoginKeepsItsState ==
    \A t \in Tabs : login[t] = Out(TRUE) => cookies.state = t

\* A browser that is logged in can always renew its session: its refresh token is
\* accepted, or the pair that replaces it is on the way, however many tabs refresh
\* and log in at once and in whatever order their answers come.  The loser of two
\* refreshes, refused by the platform, does not undo what the winner was given.
\* It is over when somebody logs out or revokes, a new pair is lost, a token runs
\* out, or an answer from before the revocation comes after a new login
\* (auth.py:50-60, 126-144).
NobodyIsLockedOut ==
    fine => \/ cookies.refresh \in alive
            \/ \E c \in Calls, q \in Pairs : call[c] = Refreshed(cookies.refresh, q)

\* Once the platform has revoked the sessions and nobody logs in again, the
\* browser is signed in for a while at most, by answers that were under way and
\* bring the cookies back (auth.py:143, 154-166; dependencies.py:31-49).
LogoutEndsSession == <>[]out => <>[]~SignedIn

=============================================================================
