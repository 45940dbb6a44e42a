------------------------- MODULE OAuthSessionProofs -------------------------
(***************************************************************************)
(* Proofs about OAuthSession for any number of tabs, calls and pairs.      *)
(***************************************************************************)
EXTENDS OAuthSession, TLAPS

\* A call is what its op says.
LEMMA CallKinds ==
    ASSUME NEW x \in CallStates
    PROVE  /\ x.op = "refresh" => \E p \in Pairs : x = Refresh(p)
           /\ x.op = "refreshed" => \E p, q \in Pairs : x = Refreshed(p, q)
  BY DEF CallStates, NoCall, LoggedOut, Refresh, Refreshed, Logout

\* The constructors of calls are told apart by op.
LEMMA CallOps ==
    /\ NoCall.op = "none" /\ LoggedOut.op = "loggedOut"
    /\ \A p : Refresh(p).op = "refresh" /\ Refresh(p).pair = p
    /\ \A p : Logout(p).op = "logout" /\ Logout(p).pair = p
    /\ \A p, q : /\ Refreshed(p, q).op = "refreshed"
                 /\ Refreshed(p, q).pair = p
                 /\ Refreshed(p, q).new = q
                 /\ NoCall # Refreshed(p, q) /\ NoCall # Refresh(p)
                 /\ LoggedOut # Refreshed(p, q) /\ LoggedOut # Refresh(p)
                 /\ Logout(p) # Refresh(q)
    /\ \A p, q, r : Refresh(r) # Refreshed(p, q) /\ Logout(r) # Refreshed(p, q)
  BY DEF NoCall, LoggedOut, Refresh, Refreshed, Logout

LEMMA CallValues ==
    /\ NoCall \in CallStates /\ LoggedOut \in CallStates
    /\ \A p \in Pairs : Refresh(p) \in CallStates /\ Logout(p) \in CallStates
    /\ \A p, q \in Pairs : Refreshed(p, q) \in CallStates
  BY DEF CallStates

LEMMA LoginValues ==
    /\ NoLogin \in Logins /\ Exchanging \in Logins
    /\ \A b \in BOOLEAN : Out(b) \in Logins
    /\ \A p \in Pairs : Answered(p) \in Logins
  BY DEF Logins

\* A login is what its stage says.
LEMMA LoginKinds ==
    ASSUME NEW x \in Logins
    PROVE  x.stage = "answered" => \E p \in Pairs : x = Answered(p)
  BY DEF Logins, NoLogin, Exchanging, Out, Answered

\* The constructors of logins are told apart by stage, logins that are out by lone.
LEMMA LoginStages ==
    /\ NoLogin.stage = "none" /\ Exchanging.stage = "exchanging"
    /\ \A b \in BOOLEAN : Out(b).stage = "out"
    /\ \A p : Answered(p).stage = "answered" /\ Answered(p).pair = p
    /\ Out(TRUE) \notin {NoLogin, Exchanging, Out(FALSE)}
    /\ \A p : /\ Answered(p) # Out(TRUE) /\ Answered(p) # Out(FALSE)
              /\ Answered(p) # NoLogin /\ Answered(p) # Exchanging
  BY DEF NoLogin, Exchanging, Out, Answered

\* A lone login is the only one, so that no other answer takes its state.
LoneIsAlone ==
    \A t \in Tabs : login[t] = Out(TRUE) =>
        cookies.state = t /\ \A u \in Tabs \ {t} : login[u] = NoLogin

\* Who brings a new pair to the browser.
LoginBrings(t, p) == login[t] = Answered(p)
CallBrings(c, p) == \E q \in Pairs : call[c] = Refreshed(q, p)

\* The browser, or a refresh that it sent, has the refresh token of the pair.
Used(p) ==
    \/ cookies.refresh = p
    \/ \E c \in Calls : \/ call[c] = Refresh(p)
                        \/ \E q \in Pairs : call[c] = Refreshed(p, q)

\* Nobody has a pair that is on its way, and one answer only brings it.
NewIsUnused == \A p \in Pairs : OnItsWay(p) => ~Used(p)
NewComesOnce ==
    \A p \in Pairs :
        /\ \A t, u \in Tabs : LoginBrings(t, p) /\ LoginBrings(u, p) => t = u
        /\ \A c, d \in Calls : CallBrings(c, p) /\ CallBrings(d, p) => c = d
        /\ \A t \in Tabs, c \in Calls : ~(LoginBrings(t, p) /\ CallBrings(c, p))

\* While all is fine, what is on its way is accepted.
NewIsGood == fine => \A p \in Pairs : OnItsWay(p) => p \in alive

\* After the revocation no refresh token is left.
NothingToRenew == out => alive = {}

SessionInv ==
    /\ TypeOK /\ LoneIsAlone /\ NothingToRenew
    /\ NewIsUnused /\ NewComesOnce /\ NewIsGood /\ NobodyIsLockedOut

LEMMA InitInv == Init => SessionInv
<1> SUFFICES ASSUME Init PROVE SessionInv
  OBVIOUS
<1>1. TypeOK
  BY LoginValues, CallValues DEF Init, TypeOK
<1>2. LoneIsAlone
  <2>1. NoLogin # Out(TRUE)
    BY LoginStages
  <2> QED BY <2>1 DEF Init, LoneIsAlone
<1>3. \A p : ~OnItsWay(p)
  BY LoginStages, CallOps DEF Init, OnItsWay
<1>4. NewIsUnused /\ NewComesOnce
  BY <1>3 DEF NewIsUnused, NewComesOnce, OnItsWay, LoginBrings, CallBrings
<1>5. NothingToRenew /\ NewIsGood /\ NobodyIsLockedOut
  BY DEF Init, NothingToRenew, NewIsGood, NobodyIsLockedOut
<1> QED BY <1>1, <1>2, <1>4, <1>5 DEF SessionInv

-----------------------------------------------------------------------------
(* Types.                                                                  *)

LEMMA LoginTypes ==
    ASSUME SessionInv, NEW t \in Tabs, LoginNext(t)
    PROVE  TypeOK'
<1> USE LoginValues DEF SessionInv, TypeOK
<1>1. CASE StartLogin(t)
  BY <1>1 DEF StartLogin, NewState
<1>2. CASE AbandonLogin(t) \/ LoginFails(t)
  BY <1>2 DEF AbandonLogin, LoginFails
<1>3. CASE Callback(t)
  BY <1>3 DEF Callback
<1>4. CASE Exchange(t)
  <2>1. PICK p \in Forgotten :
            login' = [login EXCEPT ![t] = Answered(p)] /\ alive' = alive \union {p}
    BY <1>4 DEF Exchange
  <2>2. p \in Pairs
    BY <2>1 DEF Forgotten
  <2> QED BY <1>4, <2>1, <2>2 DEF Exchange
<1>5. CASE LoginAnswers(t)
  <2>1. PICK p \in Pairs : login[t] = Answered(p)
    BY <1>5, LoginKinds DEF LoginAnswers
  <2>2. login[t].pair \in Pairs
    BY <2>1, LoginStages
  <2> QED BY <1>5, <2>2, NoneAssumption DEF LoginAnswers, WithPair
<1> QED BY <1>1, <1>2, <1>3, <1>4, <1>5 DEF LoginNext

LEMMA CallTypes ==
    ASSUME SessionInv, NEW c \in Calls, CallNext(c)
    PROVE  TypeOK'
<1> USE CallValues DEF SessionInv, TypeOK
<1>1. CASE SendRefresh(c)
  BY <1>1 DEF SendRefresh
<1>2. CASE Rotate(c)
  <2>0. PICK p \in Pairs : call[c] = Refresh(p)
    BY <1>2, CallKinds DEF Rotate
  <2>1. call[c] = Refresh(p) /\ call[c].pair = p
    BY <2>0, CallOps
  <2>2. PICK q \in Forgotten : /\ call' = [call EXCEPT ![c] = Refreshed(p, q)]
                               /\ alive' = (alive \ {p}) \union {q}
    BY <1>2, <2>1 DEF Rotate
  <2>3. q \in Pairs
    BY <2>2 DEF Forgotten
  <2> QED BY <1>2, <2>2, <2>3 DEF Rotate
<1>3. CASE RefreshFails(c) \/ RefreshLost(c)
  BY <1>3 DEF RefreshFails, RefreshLost
<1>4. CASE RefreshAnswers(c)
  <2>1. PICK p, q \in Pairs : call[c] = Refreshed(p, q)
    BY <1>4, CallKinds DEF RefreshAnswers
  <2>2. call[c].new \in Pairs
    BY <2>1, CallOps
  <2> QED BY <1>4, <2>2, NoneAssumption DEF RefreshAnswers, Renewed, WithPair
<1>5. CASE SendLogout(c)
  BY <1>5 DEF SendLogout
<1>6. CASE RevokeSession(c) \/ RevokeFails(c)
  BY <1>6 DEF RevokeSession, RevokeFails
<1>7. CASE LogoutAnswers(c)
  BY <1>7 DEF LogoutAnswers, Cleared
<1> QED BY <1>1, <1>2, <1>3, <1>4, <1>5, <1>6, <1>7 DEF CallNext

LEMMA OtherTypes ==
    ASSUME SessionInv, LogoutGet \/ Expiry
    PROVE  TypeOK'
<1> USE LoginValues DEF SessionInv, TypeOK
<1>1. CASE LogoutGet
  BY <1>1 DEF LogoutGet, Cleared
<1>2. CASE AccessExpires
  BY <1>2 DEF AccessExpires
<1>3. CASE StateExpires
  BY <1>3 DEF StateExpires
<1>4. ASSUME NEW p \in Pairs, RefreshExpires(p) PROVE TypeOK'
  BY <1>4 DEF RefreshExpires
<1> QED BY <1>1, <1>2, <1>3, <1>4 DEF Expiry

-----------------------------------------------------------------------------
(* Lone logins.                                                            *)

LEMMA LoneStep ==
    ASSUME SessionInv, Next
    PROVE  LoneIsAlone'
<1> USE DEF SessionInv
<1>1. ASSUME login' = login, cookies'.state = cookies.state PROVE LoneIsAlone'
  BY <1>1 DEF LoneIsAlone
<1>2. ASSUME NEW t \in Tabs, StartLogin(t) PROVE LoneIsAlone'
  <2>1. cookies'.state = t
    BY <1>2 DEF StartLogin, NewState, TypeOK
  <2>2. CASE \A u \in Tabs : login[u] = NoLogin
    BY <1>2, <2>1, <2>2, LoginStages DEF StartLogin, LoneIsAlone
  <2>3. CASE \E u \in Tabs : login[u] # NoLogin
    <3>1. \A u \in Tabs : login'[u] # Out(TRUE)
      BY <1>2, <2>3, LoginStages DEF StartLogin
    <3> QED BY <3>1 DEF LoneIsAlone
  <2> QED BY <2>2, <2>3
<1>3. ASSUME NEW t \in Tabs, AbandonLogin(t) \/ Callback(t) \/ LoginFails(t) \/ Exchange(t)
      PROVE  LoneIsAlone'
  <2>1. /\ \A u \in Tabs \ {t} : login'[u] = login[u]
        /\ login'[t] \in {NoLogin, Exchanging} \union {Answered(p) : p \in Forgotten}
        /\ cookies' = cookies
    BY <1>3 DEF AbandonLogin, Callback, LoginFails, Exchange, TypeOK
  <2>2. login'[t] # Out(TRUE)
    BY <2>1, LoginStages
  <2>3. login[t] # NoLogin
    <3>1. login[t].stage \in {"out", "exchanging", "answered"}
      BY <1>3, LoginStages DEF AbandonLogin, Callback, LoginFails, Exchange
    <3> QED BY <3>1, LoginStages
  <2> QED BY <2>1, <2>2, <2>3 DEF LoneIsAlone
<1>4. ASSUME NEW t \in Tabs, LoginAnswers(t) PROVE LoneIsAlone'
  <2>1. \A u \in Tabs : login'[u] # Out(TRUE)
    BY <1>4, LoginStages DEF LoginAnswers, LoneIsAlone, TypeOK
  <2> QED BY <2>1 DEF LoneIsAlone
<1>5. ASSUME NEW c \in Calls, CallNext(c) PROVE LoneIsAlone'
  <2>1. login' = login
    BY <1>5 DEF CallNext, SendRefresh, Rotate, RefreshFails, RefreshLost, RefreshAnswers,
                SendLogout, RevokeSession, RevokeFails, LogoutAnswers
  <2>2. cookies'.state = cookies.state
    BY <1>5 DEF CallNext, SendRefresh, Rotate, RefreshFails, RefreshLost, RefreshAnswers,
                SendLogout, RevokeSession, RevokeFails, LogoutAnswers, Renewed, WithPair,
                Cleared, TypeOK
  <2> QED BY <1>1, <2>1, <2>2
<1>6. ASSUME StateExpires PROVE LoneIsAlone'
  <2>1. \A u \in Tabs : login'[u] # Out(TRUE)
    BY <1>6, LoginStages DEF StateExpires
  <2> QED BY <2>1 DEF LoneIsAlone
<1>7. ASSUME LogoutGet \/ AccessExpires \/ \E p \in Pairs : RefreshExpires(p)
      PROVE  LoneIsAlone'
  <2>1. login' = login /\ cookies'.state = cookies.state
    BY <1>7 DEF LogoutGet, AccessExpires, RefreshExpires, Cleared, TypeOK
  <2> QED BY <1>1, <2>1
<1> QED BY <1>2, <1>3, <1>4, <1>5, <1>6, <1>7 DEF Next, LoginNext, Expiry

-----------------------------------------------------------------------------
(* Revocation.                                                             *)

LEMMA NothingStep ==
    ASSUME SessionInv, Next
    PROVE  NothingToRenew'
<1> USE DEF SessionInv, NothingToRenew
<1>1. ASSUME NEW t \in Tabs, LoginNext(t) PROVE NothingToRenew'
  BY <1>1 DEF LoginNext, StartLogin, AbandonLogin, Callback, Exchange, LoginFails,
              LoginAnswers
<1>2. ASSUME NEW c \in Calls, CallNext(c) PROVE NothingToRenew'
  BY <1>2 DEF CallNext, SendRefresh, Rotate, RefreshFails, RefreshLost, RefreshAnswers,
              SendLogout, RevokeSession, RevokeFails, LogoutAnswers, Revoked
<1>3. ASSUME LogoutGet \/ Expiry PROVE NothingToRenew'
  BY <1>3 DEF LogoutGet, Expiry, AccessExpires, StateExpires, RefreshExpires
<1> QED BY <1>1, <1>2, <1>3 DEF Next

-----------------------------------------------------------------------------
(* New pairs.                                                              *)

\* Steps after which no pair is on its way that was not before.
LEMMA NoNewPair ==
    ASSUME NewIsUnused, NewComesOnce,
           \A t \in Tabs, p \in Pairs : LoginBrings(t, p)' => LoginBrings(t, p),
           \A c \in Calls, p \in Pairs : CallBrings(c, p)' => CallBrings(c, p),
           \A p \in Pairs : OnItsWay(p)' /\ Used(p)' => Used(p)
    PROVE  /\ NewIsUnused' /\ NewComesOnce'
           /\ \A p \in Pairs : OnItsWay(p)' => OnItsWay(p)
<1>1. \A p \in Pairs : OnItsWay(p)' => OnItsWay(p)
  BY DEF OnItsWay, LoginBrings, CallBrings
<1>2. NewIsUnused'
  BY <1>1 DEF NewIsUnused
<1>3. NewComesOnce'
  BY DEF NewComesOnce
<1> QED BY <1>1, <1>2, <1>3

\* A pair that nobody held and one answer brings now.
LEMMA OneNewPair ==
    ASSUME NewIsUnused, NewComesOnce, NEW q \in Forgotten,
           \A p \in Pairs \ {q} :
               /\ \A t \in Tabs : LoginBrings(t, p)' => LoginBrings(t, p)
               /\ \A c \in Calls : CallBrings(c, p)' => CallBrings(c, p),
           \/ \E t \in Tabs : /\ \A u \in Tabs \ {t} : ~LoginBrings(u, q)'
                              /\ \A c \in Calls : ~CallBrings(c, q)'
           \/ \E c \in Calls : /\ \A d \in Calls \ {c} : ~CallBrings(d, q)'
                               /\ \A t \in Tabs : ~LoginBrings(t, q)',
           \A p \in Pairs : Used(p)' => Used(p)
    PROVE  /\ NewIsUnused' /\ NewComesOnce'
           /\ \A p \in Pairs : OnItsWay(p)' => OnItsWay(p) \/ p = q
<1>1. q \in Pairs /\ ~Used(q)
  BY DEF Forgotten, Held, Used
<1>2. \A p \in Pairs : OnItsWay(p)' => OnItsWay(p) \/ p = q
  BY DEF OnItsWay, LoginBrings, CallBrings
<1>3. NewIsUnused'
  BY <1>1, <1>2 DEF NewIsUnused
<1>4. NewComesOnce'
  BY DEF NewComesOnce
<1> QED BY <1>2, <1>3, <1>4

\* What the endpoints need of the pairs.
PairsInv == NewIsUnused /\ NewComesOnce /\ NewIsGood /\ NobodyIsLockedOut

\* Steps that bring nothing and leave the refresh cookie and the answers alone.
LEMMA NothingForTheCookie ==
    ASSUME PairsInv, TypeOK, cookies'.refresh = cookies.refresh, alive' = alive,
           \A t \in Tabs, p \in Pairs : LoginBrings(t, p)' => LoginBrings(t, p),
           \A c \in Calls, p \in Pairs : CallBrings(c, p)' => CallBrings(c, p),
           \A p \in Pairs : Used(p)' => Used(p),
           fine' => fine /\ \A c \in Calls, q \in Pairs :
                                call[c] = Refreshed(cookies.refresh, q) => call'[c] = call[c]
    PROVE  PairsInv'
<1>1. NewIsUnused' /\ NewComesOnce' /\ \A p \in Pairs : OnItsWay(p)' => OnItsWay(p)
  BY NoNewPair DEF PairsInv
<1>2. NewIsGood'
  BY <1>1 DEF PairsInv, NewIsGood
<1>3. NobodyIsLockedOut'
  BY DEF PairsInv, NobodyIsLockedOut
<1> QED BY <1>1, <1>2, <1>3 DEF PairsInv

LEMMA LoginPairs ==
    ASSUME TypeOK, PairsInv, NEW t \in Tabs, LoginNext(t)
    PROVE  PairsInv'
<1>1. ASSUME cookies'.refresh = cookies.refresh, alive' = alive, call' = call,
             fine' = fine,
             \A u \in Tabs : login'[u] = login[u]
                             \/ login'[u] \in {NoLogin, Exchanging, Out(TRUE), Out(FALSE)}
      PROVE  PairsInv'
  <2>1. \A u \in Tabs, p \in Pairs : LoginBrings(u, p)' => LoginBrings(u, p)
    BY <1>1, LoginStages DEF LoginBrings
  <2>2. \A c \in Calls, p \in Pairs : CallBrings(c, p)' => CallBrings(c, p)
    BY <1>1 DEF CallBrings
  <2>3. \A p \in Pairs : Used(p)' => Used(p)
    BY <1>1 DEF Used
  <2> QED BY <1>1, <2>1, <2>2, <2>3, NothingForTheCookie
<1>2. CASE StartLogin(t)
  <2>1. \A u \in Tabs : login'[u] = login[u] \/ login'[u] \in {Out(TRUE), Out(FALSE)}
    BY <1>2 DEF StartLogin
  <2> QED BY <1>1, <1>2, <2>1 DEF StartLogin, NewState, TypeOK
<1>3. CASE AbandonLogin(t) \/ LoginFails(t) \/ Callback(t)
  BY <1>1, <1>3 DEF AbandonLogin, LoginFails, Callback, TypeOK
<1>4. CASE Exchange(t)
  <2>1. PICK q \in Forgotten :
            login' = [login EXCEPT ![t] = Answered(q)] /\ alive' = alive \union {q}
    BY <1>4 DEF Exchange
  <2>2. /\ UNCHANGED <<cookies, call, fine>> /\ q \in Pairs
        /\ \A u \in Tabs \ {t} : login'[u] # Answered(q)
        /\ \A c \in Calls, p \in Pairs : call[c] # Refreshed(p, q)
    BY <1>4, <2>1 DEF Exchange, Forgotten, Held, TypeOK
  <2>3. \A p \in Pairs \ {q} : /\ \A u \in Tabs : LoginBrings(u, p)' => LoginBrings(u, p)
                               /\ \A c \in Calls : CallBrings(c, p)' => CallBrings(c, p)
    BY <2>1, <2>2, LoginStages DEF LoginBrings, CallBrings, TypeOK
  <2>4. \A p \in Pairs : Used(p)' => Used(p)
    BY <2>2 DEF Used
  <2>5. /\ NewIsUnused' /\ NewComesOnce'
        /\ \A p \in Pairs : OnItsWay(p)' => OnItsWay(p) \/ p = q
    <3>1. /\ \A u \in Tabs \ {t} : ~LoginBrings(u, q)'
          /\ \A c \in Calls : ~CallBrings(c, q)'
      BY <2>2 DEF LoginBrings, CallBrings
    <3> QED BY <2>3, <2>4, <3>1, OneNewPair DEF PairsInv
  <2>6. NewIsGood' /\ NobodyIsLockedOut'
    BY <2>1, <2>2, <2>5 DEF PairsInv, NewIsGood, NobodyIsLockedOut
  <2> QED BY <2>5, <2>6 DEF PairsInv
<1>5. CASE LoginAnswers(t)
  <2>1. PICK x \in Pairs : login[t] = Answered(x)
    BY <1>5, LoginKinds DEF LoginAnswers, TypeOK
  <2>2. /\ cookies'.refresh = x /\ login' = [login EXCEPT ![t] = NoLogin]
        /\ UNCHANGED <<call, alive>>
        /\ fine' = \A p \in Pairs : OnItsWay(p) => p \in alive
    BY <1>5, <2>1, LoginStages DEF LoginAnswers, WithPair, TypeOK
  <2>3. /\ \A u \in Tabs, p \in Pairs : LoginBrings(u, p)' => LoginBrings(u, p) /\ u # t
        /\ \A c \in Calls, p \in Pairs : CallBrings(c, p)' => CallBrings(c, p)
    BY <2>2, LoginStages DEF LoginBrings, CallBrings, TypeOK
  <2>4. LoginBrings(t, x) /\ OnItsWay(x)
    BY <2>1 DEF LoginBrings, OnItsWay
  <2>5. ~OnItsWay(x)'
    <3>1. /\ \A u \in Tabs : ~LoginBrings(u, x)'
          /\ \A c \in Calls : ~CallBrings(c, x)'
      BY <2>3, <2>4 DEF PairsInv, NewComesOnce
    <3> QED BY <3>1 DEF OnItsWay, LoginBrings, CallBrings
  <2>6. \A p \in Pairs : OnItsWay(p)' /\ Used(p)' => Used(p)
    BY <2>2, <2>5 DEF Used
  <2>7. /\ NewIsUnused' /\ NewComesOnce' /\ \A p \in Pairs : OnItsWay(p)' => OnItsWay(p)
    BY <2>3, <2>6, NoNewPair DEF PairsInv
  <2>8. NewIsGood' /\ NobodyIsLockedOut'
    BY <2>2, <2>4, <2>7 DEF NewIsGood, NobodyIsLockedOut
  <2> QED BY <2>7, <2>8 DEF PairsInv
<1> QED BY <1>2, <1>3, <1>4, <1>5 DEF LoginNext

LEMMA CallPairs ==
    ASSUME TypeOK, PairsInv, NEW c \in Calls, CallNext(c)
    PROVE  PairsInv'
<1>0. call[c] \in CallStates
  BY DEF TypeOK
<1>1. ASSUME login' = login, \A d \in Calls \ {c} : call'[d] = call[d],
             \A p, q \in Pairs : call'[c] # Refreshed(p, q)
      PROVE  /\ \A t \in Tabs, p \in Pairs : LoginBrings(t, p)' => LoginBrings(t, p)
             /\ \A d \in Calls, p \in Pairs : CallBrings(d, p)' => CallBrings(d, p) /\ d # c
  BY <1>1 DEF LoginBrings, CallBrings
<1>2. ASSUME login' = login, alive' = alive, cookies'.refresh = cookies.refresh,
             \A d \in Calls \ {c} : call'[d] = call[d],
             \A p, q \in Pairs : call'[c] # Refreshed(p, q),
             \A p \in Pairs : call'[c] = Refresh(p) => Used(p),
             fine' => fine /\ \A q \in Pairs : call[c] # Refreshed(cookies.refresh, q)
      PROVE  PairsInv'
  <2>1. \A p \in Pairs : Used(p)' => Used(p)
    BY <1>2 DEF Used
  <2>2. fine' => fine /\ \A d \in Calls, q \in Pairs :
                             call[d] = Refreshed(cookies.refresh, q) => call'[d] = call[d]
    BY <1>2
  <2> QED BY <1>1, <1>2, <2>1, <2>2, NothingForTheCookie
<1>3. CASE SendRefresh(c)
  <2>1. /\ UNCHANGED <<cookies, login, alive, fine>>
        /\ call[c] = NoCall /\ call'[c] = Refresh(cookies.refresh)
        /\ \A d \in Calls \ {c} : call'[d] = call[d]
    BY <1>3 DEF SendRefresh, TypeOK
  <2>2. Used(cookies.refresh)
    BY DEF Used
  <2>3. /\ \A p, q \in Pairs : call'[c] # Refreshed(p, q)
        /\ \A p \in Pairs : call'[c] = Refresh(p) => Used(p)
    BY <2>1, <2>2, CallOps
  <2>4. \A q \in Pairs : call[c] # Refreshed(cookies.refresh, q)
    BY <2>1, CallOps
  <2> QED BY <1>2, <2>1, <2>3, <2>4
<1>4. CASE RefreshFails(c) \/ SendLogout(c) \/ RevokeFails(c)
  <2>1. /\ UNCHANGED <<cookies, login, alive, fine>>
        /\ call[c].op # "refreshed"
        /\ call'[c] \in {NoCall, LoggedOut, Logout(cookies.refresh)}
        /\ \A d \in Calls \ {c} : call'[d] = call[d]
    BY <1>4, CallOps DEF RefreshFails, SendLogout, RevokeFails, TypeOK
  <2>2. /\ \A p, q \in Pairs : call'[c] # Refreshed(p, q)
        /\ \A p \in Pairs : call'[c] # Refresh(p)
    BY <2>1, CallOps
  <2>3. \A q \in Pairs : call[c] # Refreshed(cookies.refresh, q)
    BY <2>1, CallOps
  <2> QED BY <1>2, <2>1, <2>2, <2>3
<1>5. CASE RefreshLost(c)
  <2>1. /\ UNCHANGED <<cookies, login, alive>> /\ call'[c] = NoCall
        /\ fine' => fine /\ call[c].pair # cookies.refresh
        /\ \A d \in Calls \ {c} : call'[d] = call[d]
    BY <1>5 DEF RefreshLost, TypeOK
  <2>2. /\ \A p, q \in Pairs : call'[c] # Refreshed(p, q)
        /\ \A p \in Pairs : call'[c] # Refresh(p)
    BY <2>1, CallOps
  <2>3. fine' => fine /\ \A q \in Pairs : call[c] # Refreshed(cookies.refresh, q)
    BY <2>1, CallOps
  <2> QED BY <1>2, <2>1, <2>2, <2>3
<1>6. CASE RevokeSession(c) \/ LogoutAnswers(c)
  <2>1. /\ login' = login /\ fine' = FALSE
        /\ call'[c] \in {NoCall, LoggedOut}
        /\ \A d \in Calls \ {c} : call'[d] = call[d]
        /\ cookies'.refresh \in {cookies.refresh, None}
    BY <1>6 DEF RevokeSession, LogoutAnswers, Cleared, TypeOK
  <2>2. /\ \A p, q \in Pairs : call'[c] # Refreshed(p, q)
        /\ \A p \in Pairs : call'[c] # Refresh(p)
    BY <2>1, CallOps
  <2>3. \A p \in Pairs : Used(p)' => Used(p)
    BY <2>1, <2>2, NoneAssumption DEF Used
  <2>4. NewIsUnused' /\ NewComesOnce'
    BY <1>1, <2>1, <2>2, <2>3, NoNewPair DEF PairsInv
  <2> QED BY <2>1, <2>4 DEF PairsInv, NewIsGood, NobodyIsLockedOut
<1>7. CASE Rotate(c)
  <2>1. PICK p \in Pairs : call[c] = Refresh(p) /\ call[c].pair = p
    BY <1>0, <1>7, CallKinds, CallOps DEF Rotate
  <2>2. PICK q \in Forgotten : /\ call' = [call EXCEPT ![c] = Refreshed(p, q)]
                               /\ alive' = (alive \ {p}) \union {q}
    BY <1>7, <2>1 DEF Rotate
  <2>3. /\ UNCHANGED <<cookies, login, fine>> /\ q \in Pairs
        /\ call'[c] = Refreshed(p, q)
        /\ \A d \in Calls \ {c} : call'[d] = call[d]
        /\ \A d \in Calls, o \in Pairs : call[d] # Refreshed(o, q)
        /\ \A t \in Tabs : login[t] # Answered(q)
    BY <1>7, <2>2 DEF Rotate, Forgotten, Held, TypeOK
  <2>4. /\ \A t \in Tabs : ~LoginBrings(t, q)'
        /\ \A d \in Calls \ {c} : ~CallBrings(d, q)'
    BY <2>3 DEF LoginBrings, CallBrings
  <2>5. \A x \in Pairs \ {q} : /\ \A t \in Tabs : LoginBrings(t, x)' => LoginBrings(t, x)
                               /\ \A d \in Calls : CallBrings(d, x)' => CallBrings(d, x)
    BY <2>3, CallOps DEF LoginBrings, CallBrings
  <2>6. Used(p) /\ \A x \in Pairs : Used(x)' => Used(x)
    BY <2>1, <2>3, CallOps DEF Used
  <2>7. /\ NewIsUnused' /\ NewComesOnce'
        /\ \A x \in Pairs : OnItsWay(x)' => OnItsWay(x) \/ x = q
    BY <2>4, <2>5, <2>6, OneNewPair DEF PairsInv
  <2>8. NewIsGood'
    BY <2>2, <2>3, <2>6, <2>7 DEF PairsInv, NewIsGood, NewIsUnused
  <2>9. NobodyIsLockedOut'
    <3>1. CASE cookies.refresh = p
      BY <2>3, <3>1 DEF NobodyIsLockedOut
    <3>2. CASE cookies.refresh # p
      BY <2>1, <2>2, <2>3, <3>2, CallOps DEF PairsInv, NobodyIsLockedOut
    <3> QED BY <3>1, <3>2
  <2> QED BY <2>7, <2>8, <2>9 DEF PairsInv
<1>8. CASE RefreshAnswers(c)
  <2>1. PICK o, x \in Pairs : call[c] = Refreshed(o, x) /\ call[c].new = x
    BY <1>0, <1>8, CallKinds, CallOps DEF RefreshAnswers
  <2>2. /\ cookies'.refresh = x /\ call' = [call EXCEPT ![c] = NoCall]
        /\ UNCHANGED <<login, alive, fine>>
    BY <1>8, <2>1 DEF RefreshAnswers, Renewed, WithPair, TypeOK
  <2>3. /\ \A t \in Tabs, p \in Pairs : LoginBrings(t, p)' => LoginBrings(t, p)
        /\ \A d \in Calls, p \in Pairs : CallBrings(d, p)' => CallBrings(d, p) /\ d # c
    <3>1. call'[c] = NoCall /\ \A d \in Calls \ {c} : call'[d] = call[d]
      BY <2>2 DEF TypeOK
    <3>2. \A p, q \in Pairs : call'[c] # Refreshed(p, q)
      BY <3>1, CallOps
    <3> QED BY <1>1, <2>2, <3>1, <3>2
  <2>4. CallBrings(c, x) /\ OnItsWay(x)
    BY <2>1 DEF CallBrings, OnItsWay
  <2>5. ~OnItsWay(x)'
    <3>1. /\ \A t \in Tabs : ~LoginBrings(t, x)'
          /\ \A d \in Calls : ~CallBrings(d, x)'
      BY <2>3, <2>4 DEF PairsInv, NewComesOnce
    <3> QED BY <3>1 DEF OnItsWay, LoginBrings, CallBrings
  <2>6. \A p \in Pairs : OnItsWay(p)' /\ Used(p)' => Used(p)
    BY <2>2, <2>5, CallOps DEF Used, TypeOK
  <2>7. /\ NewIsUnused' /\ NewComesOnce' /\ \A p \in Pairs : OnItsWay(p)' => OnItsWay(p)
    BY <2>3, <2>6, NoNewPair DEF PairsInv
  <2>8. NewIsGood' /\ NobodyIsLockedOut'
    BY <2>2, <2>4, <2>7 DEF PairsInv, NewIsGood, NobodyIsLockedOut
  <2> QED BY <2>7, <2>8 DEF PairsInv
<1> QED BY <1>3, <1>4, <1>5, <1>6, <1>7, <1>8 DEF CallNext

LEMMA OtherPairs ==
    ASSUME TypeOK, PairsInv, LogoutGet \/ Expiry
    PROVE  PairsInv'
<1>1. ASSUME call' = call,
             \A t \in Tabs : login'[t] = login[t] \/ login'[t] = Out(FALSE),
             cookies'.refresh \in {cookies.refresh, None}
      PROVE  /\ \A t \in Tabs, p \in Pairs : LoginBrings(t, p)' => LoginBrings(t, p)
             /\ \A c \in Calls, p \in Pairs : CallBrings(c, p)' => CallBrings(c, p)
             /\ \A p \in Pairs : Used(p)' => Used(p)
  BY <1>1, LoginStages, NoneAssumption DEF LoginBrings, CallBrings, Used
<1>2. CASE LogoutGet
  <2>1. NewIsUnused' /\ NewComesOnce'
    BY <1>1, <1>2, NoNewPair DEF LogoutGet, Cleared, PairsInv, TypeOK
  <2> QED BY <1>2, <2>1 DEF LogoutGet, PairsInv, NewIsGood, NobodyIsLockedOut
<1>3. CASE AccessExpires
  BY <1>1, <1>3, NothingForTheCookie DEF AccessExpires, TypeOK
<1>4. CASE StateExpires
  <2>1. /\ cookies'.refresh = cookies.refresh /\ UNCHANGED <<call, alive, fine>>
        /\ \A t \in Tabs : login'[t] = login[t] \/ login'[t] = Out(FALSE)
    BY <1>4 DEF StateExpires, TypeOK
  <2> QED BY <1>1, <2>1, NothingForTheCookie
<1>5. ASSUME NEW p \in Pairs, RefreshExpires(p) PROVE PairsInv'
  <2>1. /\ call' = call /\ login' = login /\ alive' = alive \ {p}
        /\ cookies'.refresh \in {cookies.refresh, None}
        /\ fine' = (fine /\ ~Held(p))
        /\ cookies.refresh # p => cookies'.refresh = cookies.refresh
    BY <1>5 DEF RefreshExpires, TypeOK
  <2>2. /\ NewIsUnused' /\ NewComesOnce' /\ \A x \in Pairs : OnItsWay(x)' => OnItsWay(x)
    BY <1>1, <2>1, NoNewPair DEF PairsInv
  <2>3. ASSUME fine' PROVE ~OnItsWay(p) /\ cookies.refresh # p
    BY <2>1, <2>3 DEF Held, OnItsWay
  <2>4. NewIsGood'
    BY <2>1, <2>2, <2>3 DEF PairsInv, NewIsGood
  <2>5. NobodyIsLockedOut'
    BY <2>1, <2>3 DEF PairsInv, NobodyIsLockedOut
  <2> QED BY <2>2, <2>4, <2>5 DEF PairsInv
<1> QED BY <1>2, <1>3, <1>4, <1>5 DEF Expiry

-----------------------------------------------------------------------------
LEMMA NextInv ==
    ASSUME SessionInv, [Next]_vars
    PROVE  SessionInv'
<1>1. CASE Next
  <2>1. TypeOK'
    BY <1>1, LoginTypes, CallTypes, OtherTypes DEF Next
  <2>2. TypeOK /\ PairsInv
    BY DEF SessionInv, PairsInv
  <2>3. PairsInv'
    BY <1>1, <2>2, LoginPairs, CallPairs, OtherPairs DEF Next
  <2>4. LoneIsAlone' /\ NothingToRenew'
    BY <1>1, LoneStep, NothingStep
  <2> QED BY <2>1, <2>3, <2>4 DEF SessionInv, PairsInv
<1>2. CASE UNCHANGED vars
  <2>1. /\ cookies' = cookies /\ login' = login /\ call' = call
        /\ alive' = alive /\ out' = out /\ fine' = fine
    BY <1>2 DEF vars
  <2>2. \A p : /\ OnItsWay(p)' = OnItsWay(p) /\ Used(p)' = Used(p)
               /\ \A t : LoginBrings(t, p)' = LoginBrings(t, p)
               /\ \A c : CallBrings(c, p)' = CallBrings(c, p)
    BY <2>1 DEF OnItsWay, Used, LoginBrings, CallBrings
  <2>3. TypeOK' /\ LoneIsAlone' /\ NothingToRenew' /\ NobodyIsLockedOut'
    BY <2>1 DEF SessionInv, TypeOK, LoneIsAlone, NothingToRenew, NobodyIsLockedOut
  <2>4. NewIsUnused' /\ NewComesOnce' /\ NewIsGood'
    BY <2>1, <2>2 DEF SessionInv, NewIsUnused, NewComesOnce, NewIsGood
  <2> QED BY <2>3, <2>4 DEF SessionInv
<1> QED BY <1>1, <1>2

LEMMA SpecInv == Spec => []SessionInv
  BY InitInv, NextInv, PTL DEF Spec

\* The browser holds tokens and states only, and a call always carries a token
\* (auth.py:50-60, 87-90, 130).
THEOREM SessionTyped == Spec => []TypeOK
<1>1. SessionInv => TypeOK
  BY DEF SessionInv
<1> QED BY <1>1, SpecInv, PTL

\* A login that no other overlaps is not refused for its state, whatever is
\* refreshed or logged out meanwhile (auth.py:87, 103, 123, 164).
THEOREM LoneLoginsPass == Spec => []LoneLoginKeepsItsState
<1>1. SessionInv => LoneLoginKeepsItsState
  BY DEF SessionInv, LoneIsAlone, LoneLoginKeepsItsState
<1> QED BY <1>1, SpecInv, PTL

\* However many tabs refresh and log in at once, and in whatever order the answers
\* come, a browser whose session nothing ended holds a refresh token that the
\* platform accepts, or is about to (auth.py:126-144).
THEOREM SessionsCanBeRenewed == Spec => []NobodyIsLockedOut
<1>1. SessionInv => NobodyIsLockedOut
  BY DEF SessionInv
<1> QED BY <1>1, SpecInv, PTL

\* After the revocation no answer that is still under way brings a refresh token
\* the platform accepts (auth.py:155-157).
THEOREM RevokedForGood == Spec => []NothingToRenew
<1>1. SessionInv => NothingToRenew
  BY DEF SessionInv
<1> QED BY <1>1, SpecInv, PTL
=============================================================================
