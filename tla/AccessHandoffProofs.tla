------------------------ MODULE AccessHandoffProofs ------------------------
(***************************************************************************)
(* Proofs about AccessHandoff for every set of users, OTPs and handlers    *)
(* and every pair of lifetimes.  That an OTP is used once is inductive     *)
(* together with the types: a fresh value is none that a handler has, so   *)
(* nothing puts an OTP back that is being exchanged.                       *)
(***************************************************************************)
EXTENDS AccessHandoff, TLAPS

HandoffInv == TypeOK /\ OtpIsUsedOnce

\* The three shapes of a handler, and the two of an OTP, are told apart.
LEMMA Shapes ==
    /\ NoOtp \notin Entry
    /\ Idle \notin Plain
    /\ Idle \notin WithOtp
    /\ \A p \in Plain, w \in WithOtp : p # w
<1>1. ASSUME NoOtp \in Entry PROVE FALSE
  <2>1. "user" \in DOMAIN NoOtp
    BY <1>1 DEF Entry
  <2> QED BY <2>1 DEF NoOtp
<1>2. ASSUME Idle \in Plain \union WithOtp PROVE FALSE
  <2>1. "user" \in DOMAIN Idle
    BY <1>2 DEF Plain, WithOtp
  <2> QED BY <2>1 DEF Idle
<1>3. ASSUME NEW p \in Plain, p \in WithOtp PROVE FALSE
  BY <1>3 DEF Plain, WithOtp
<1> QED BY <1>1, <1>2, <1>3

\* What an OTP in the store can be after a unit of time.
LEMMA TickEntry ==
    ASSUME NEW e \in Entry \union {NoOtp}
    PROVE  LET f == [e EXCEPT !.left = Less(@)] IN
           /\ e \in Entry => /\ f \in Entry
                             /\ f.user = e.user
                             /\ f.left >= 0 => e.left >= 0
           /\ e = NoOtp => f = NoOtp
<1> DEFINE f == [e EXCEPT !.left = Less(@)]
<1>1. ASSUME e \in Entry
      PROVE  f \in Entry /\ f.user = e.user /\ (f.left >= 0 => e.left >= 0)
  BY <1>1, HandoffAssumption DEF Entry, Less, Expired
<1>2. ASSUME e = NoOtp PROVE f = NoOtp
  BY <1>2 DEF NoOtp, Less, Expired
<1> QED BY <1>1, <1>2

\* Cleaning up keeps the OTPs that are good and empties the other places.
LEMMA Cleaning ==
    ASSUME TypeOK
    PROVE  /\ Cleaned \in [Otps -> Entry \union {NoOtp}]
           /\ \A o \in Otps : Cleaned[o] \in {otps[o], NoOtp}
  BY DEF TypeOK, Cleaned

\* An answer marks a good OTP as sent and touches nothing else.
LEMMA Sending ==
    ASSUME TypeOK, NEW r \in Requests, AnswerOtp(r)
    PROVE  /\ otps' \in [Otps -> Entry \union {NoOtp}]
           /\ \A o \in Otps :
                  \/ otps'[o] = otps[o]
                  \/ /\ otps[o] \in Entry
                     /\ otps'[o] \in Entry
                     /\ otps'[o].user = otps[o].user
                     /\ otps'[o].left = otps[o].left
<1> DEFINE p == req[r].otp
           f == [otps[p] EXCEPT !.sent = TRUE]
<1>1. p \in Otps
  BY DEF AnswerOtp, WithOtp
<1>2. CASE ~LiveOtp(p)
  BY <1>2 DEF AnswerOtp, TypeOK
<1>3. CASE LiveOtp(p)
  <2>1. otps[p] \in Entry
    BY <1>3 DEF LiveOtp
  <2>2. f \in Entry /\ f.user = otps[p].user /\ f.left = otps[p].left
    BY <2>1 DEF Entry
  <2>3. otps' = [otps EXCEPT ![p] = f]
    BY <1>3 DEF AnswerOtp
  <2> HIDE DEF f, p
  <2> QED BY <1>1, <2>1, <2>2, <2>3 DEF TypeOK
<1> QED BY <1>2, <1>3

\* What a step does to one OTP: nothing, the end, or a change that keeps whose
\* it is and how long it is good; or it is made, in a place no handler has.
LEMMA OtpSteps ==
    ASSUME TypeOK, [Next]_vars, NEW o \in Otps
    PROVE  /\ otps' \in [Otps -> Entry \union {NoOtp}]
           /\ \/ otps'[o] \in {otps[o], NoOtp}
              \/ /\ otps[o] \in Entry
                 /\ otps'[o] \in Entry
                 /\ otps'[o].user = otps[o].user
                 /\ otps'[o].left >= 0 => otps[o].left >= 0
              \/ \E r \in Requests :
                     /\ CreateOtp(r, o)
                     /\ otps'[o].user = req[r].user
<1> USE DEF TypeOK
<1>1. CASE Tick
  BY <1>1, TickEntry DEF Tick
<1>2. CASE Restart
  BY <1>2 DEF Restart
<1>3. ASSUME NEW r \in Requests, NEW p \in Otps, CreateOtp(r, p)
      PROVE  /\ otps' \in [Otps -> Entry \union {NoOtp}]
             /\ o # p => otps'[o] \in {otps[o], NoOtp}
             /\ o = p => otps'[o].user = req[r].user
  <2> DEFINE e == [user |-> req[r].user, left |-> OtpTTL, sent |-> FALSE]
  <2>1. e \in Entry
    <3>1. req[r].user \in Users
      BY <1>3 DEF CreateOtp, Plain, WithOtp, Idle
    <3> QED BY <3>1, HandoffAssumption DEF Entry, Expired
  <2>2. otps' = [Cleaned EXCEPT ![p] = e]
    BY <1>3 DEF CreateOtp
  <2>3. e.user = req[r].user
    OBVIOUS
  <2> HIDE DEF e
  <2> QED BY <2>1, <2>2, <2>3, Cleaning
<1>4. ASSUME NEW r \in Requests, AnswerOtp(r)
      PROVE  /\ otps' \in [Otps -> Entry \union {NoOtp}]
             /\ \/ otps'[o] = otps[o]
                \/ /\ otps[o] \in Entry
                   /\ otps'[o] \in Entry
                   /\ otps'[o].user = otps[o].user
                   /\ otps'[o].left = otps[o].left
  BY <1>4, Sending
<1>5. ASSUME NEW r \in Requests, NEW p \in Otps, ExchangeOtp(r, p)
      PROVE  /\ otps' \in [Otps -> Entry \union {NoOtp}]
             /\ otps'[o] \in {otps[o], NoOtp}
  BY <1>5, Cleaning DEF ExchangeOtp
<1>6. CASE UNCHANGED otps
  BY <1>6
<1>7. CASE ExchangeUnknownOtp
  BY <1>7, Cleaning DEF ExchangeUnknownOtp
<1> QED BY <1>1, <1>2, <1>3, <1>4, <1>5, <1>6, <1>7
        DEF Next, GoOn, vars, AddMember, RemoveMember, DeleteTenant,
            RevokeApiKey, FindMember, CreateAccessToken, VerifyAccessToken,
            ResolveSystemKey, Forward, AnswerProxy, Fail

\* What a step does to one handler: nothing, its end, one of the three ways in,
\* or one of the three ways on.
LEMMA ReqSteps ==
    ASSUME TypeOK, [Next]_vars, NEW r \in Requests
    PROVE  \/ req'[r] = req[r]
           \/ req'[r] = Idle
           \/ /\ req[r] = Idle
              /\ req'[r] \in Plain
              /\ req'[r].pc \in {"may have token", "may have otp", "verified"}
              /\ req'[r].user \in members \/ tokens[req'[r].user] >= 0
           \/ \E o \in Otps :
                  /\ ExchangeOtp(r, o)
                  /\ LiveOtp(o)
                  /\ otps'[o] = NoOtp
                  /\ req'[r] \in WithOtp
                  /\ req'[r].pc = "claims"
                  /\ req'[r].otp = o
                  /\ req'[r].user = otps[o].user
           \/ /\ req[r] # Idle
              /\ req'[r] \in WithOtp
              /\ req'[r].pc = "made otp"
              /\ req'[r].user = req[r].user
           \/ /\ key # "gone"
              /\ req[r] \in WithOtp
              /\ req[r].pc = "claims"
              /\ req'[r] \in WithOtp
              /\ req'[r].pc = "found key"
              /\ req'[r].otp = req[r].otp
              /\ req'[r].user = req[r].user
           \/ /\ key # "gone"
              /\ req[r] # Idle
              /\ req'[r] \in Plain
              /\ req'[r].user = req[r].user
<1> USE DEF TypeOK
<1>1. ASSUME NEW q \in Requests, NEW u \in Users,
             NEW pc \in {"may have token", "may have otp"}, FindMember(q, u, pc),
             r = q
      PROVE  /\ req[r] = Idle
             /\ req'[r] \in Plain
             /\ req'[r].pc \in {"may have token", "may have otp", "verified"}
             /\ req'[r].user \in members
  BY <1>1 DEF FindMember, Become, Plain
<1>2. ASSUME NEW q \in Requests, NEW u \in Users, VerifyAccessToken(q, u), r = q
      PROVE  /\ req[r] = Idle
             /\ req'[r] \in Plain
             /\ req'[r].pc \in {"may have token", "may have otp", "verified"}
             /\ tokens[req'[r].user] >= 0
  BY <1>2 DEF VerifyAccessToken, Become, Plain
<1>3. ASSUME NEW q \in Requests, NEW o \in Otps, ExchangeOtp(q, o), r = q,
             LiveOtp(o)
      PROVE  /\ otps'[o] = NoOtp
             /\ req'[r] \in WithOtp
             /\ req'[r].pc = "claims"
             /\ req'[r].otp = o
             /\ req'[r].user = otps[o].user
  <2>1. otps[o].user \in Users
    BY <1>3 DEF LiveOtp, Entry
  <2>2. otps'[o] = NoOtp
    BY <1>3, Cleaning DEF ExchangeOtp
  <2> DEFINE w == [pc |-> "claims", user |-> otps[o].user, otp |-> o]
  <2>3. req'[r] = w
    BY <1>3 DEF ExchangeOtp, Become
  <2>4. /\ w \in WithOtp
        /\ w.pc = "claims"
        /\ w.otp = o
        /\ w.user = otps[o].user
    BY <2>1 DEF WithOtp
  <2> HIDE DEF w
  <2> QED BY <2>2, <2>3, <2>4
<1>4. ASSUME NEW q \in Requests, NEW o \in Otps, ExchangeOtp(q, o), r = q,
             ~LiveOtp(o)
      PROVE  req'[r] = Idle
  BY <1>4 DEF ExchangeOtp, Become
<1>5. ASSUME NEW q \in Requests, NEW o \in Otps, CreateOtp(q, o), r = q
      PROVE  /\ req[r] # Idle
             /\ req'[r] \in WithOtp
             /\ req'[r].pc = "made otp"
             /\ req'[r].user = req[r].user
  <2>1. req[r].user \in Users
    BY <1>5 DEF CreateOtp, Plain, WithOtp
  <2> DEFINE w == [pc |-> "made otp", user |-> req[r].user, otp |-> o]
  <2>2. req'[r] = w
    BY <1>5 DEF CreateOtp, Become
  <2>3. req[r] # Idle
    BY <1>5 DEF CreateOtp
  <2>4. w \in WithOtp /\ w.pc = "made otp" /\ w.user = req[r].user
    BY <2>1 DEF WithOtp
  <2> HIDE DEF w
  <2> QED BY <2>2, <2>3, <2>4
<1>6. ASSUME NEW q \in Requests, ResolveSystemKey(q), r = q, key = "gone"
      PROVE  req'[r] = Idle
  BY <1>6 DEF ResolveSystemKey, Become, KeyInTable
<1>7. ASSUME NEW q \in Requests, ResolveSystemKey(q), r = q, key # "gone",
             req[r] \in WithOtp
      PROVE  /\ req[r].pc = "claims"
             /\ req'[r] \in WithOtp
             /\ req'[r].pc = "found key"
             /\ req'[r].otp = req[r].otp
             /\ req'[r].user = req[r].user
  <2> DEFINE f == [req[r] EXCEPT !.pc = "found key"]
  <2>1. req[r].pc = "claims"
    BY <1>7 DEF ResolveSystemKey, WithOtp
  <2>2. req'[r] = f
    BY <1>7, <2>1 DEF ResolveSystemKey, Become, KeyInTable
  <2>3. /\ f \in WithOtp
        /\ f.pc = "found key"
        /\ f.otp = req[r].otp
        /\ f.user = req[r].user
    BY <1>7 DEF WithOtp
  <2> QED BY <2>1, <2>2, <2>3
<1>8. ASSUME NEW q \in Requests, ResolveSystemKey(q), r = q, key # "gone",
             req[r] \in Plain
      PROVE  /\ req'[r] \in Plain
             /\ req'[r].user = req[r].user
  <2> DEFINE f == [req[r] EXCEPT !.pc = "forwarding"]
  <2>1. req[r].pc = "verified"
    BY <1>8 DEF ResolveSystemKey, Plain
  <2>2. req'[r] = f
    BY <1>8, <2>1 DEF ResolveSystemKey, Become, KeyInTable
  <2>3. f \in Plain /\ f.user = req[r].user
    BY <1>8 DEF Plain
  <2> QED BY <2>2, <2>3
<1>9. ASSUME NEW q \in Requests, Forward(q), r = q, key = "usable"
      PROVE  /\ req'[r] \in Plain
             /\ req'[r].user = req[r].user
  <2> DEFINE f == [req[r] EXCEPT !.pc = "serving"]
  <2>1. req[r] \in Plain
    BY <1>9 DEF Forward, WithOtp
  <2>2. req'[r] = f
    BY <1>9 DEF Forward, Become
  <2>3. f \in Plain /\ f.user = req[r].user
    BY <2>1 DEF Plain
  <2> QED BY <2>2, <2>3
<1>10. ASSUME NEW q \in Requests, Forward(q), r = q, key # "usable"
       PROVE  req'[r] = Idle
  BY <1>10 DEF Forward, Become
<1>11. ASSUME NEW q \in Requests,
              CreateAccessToken(q) \/ AnswerOtp(q) \/ AnswerProxy(q) \/ Fail(q)
       PROVE  req'[r] \in {req[r], Idle}
  BY <1>11 DEF CreateAccessToken, AnswerOtp, AnswerProxy, Fail, Become
<1>12. ASSUME NEW q \in Requests, r # q,
              \/ \E u \in Users, pc \in {"may have token", "may have otp"} :
                     FindMember(q, u, pc)
              \/ \E u \in Users : VerifyAccessToken(q, u)
              \/ \E o \in Otps : ExchangeOtp(q, o) \/ CreateOtp(q, o)
              \/ ResolveSystemKey(q)
              \/ Forward(q)
       PROVE  req'[r] = req[r]
  BY <1>12 DEF FindMember, VerifyAccessToken, ExchangeOtp, CreateOtp,
               ResolveSystemKey, Forward, Become
<1>13. ASSUME UNCHANGED req PROVE req'[r] = req[r]
  BY <1>13
<1>14. CASE Restart
  BY <1>14 DEF Restart
<1>15. ASSUME NEW q \in Requests, ResolveSystemKey(q) \/ Forward(q)
       PROVE  req[q] # Idle
  BY <1>15 DEF ResolveSystemKey, Forward
<1>16. \/ UNCHANGED req
       \/ Restart
       \/ \E q \in Requests :
              \/ \E u \in Users, pc \in {"may have token", "may have otp"} :
                     FindMember(q, u, pc)
              \/ \E u \in Users : VerifyAccessToken(q, u)
              \/ \E o \in Otps : ExchangeOtp(q, o) \/ CreateOtp(q, o)
              \/ ResolveSystemKey(q)
              \/ Forward(q)
              \/ CreateAccessToken(q) \/ AnswerOtp(q) \/ AnswerProxy(q) \/ Fail(q)
  BY DEF Next, GoOn, vars, AddMember, RemoveMember, DeleteTenant, RevokeApiKey,
         Tick, ExchangeUnknownOtp
<1>17. CASE \E q \in Requests : ResolveSystemKey(q)
  <2>1. req[r] \in {Idle} \union Plain \union WithOtp
    OBVIOUS
  <2> QED BY <1>17, <2>1, <1>6, <1>7, <1>8, <1>12, <1>15
<1>18. CASE \E q \in Requests : Forward(q)
  BY <1>18, <1>9, <1>10, <1>12, <1>15
<1>19. CASE \E q \in Requests, o \in Otps : ExchangeOtp(q, o)
  <2>1. PICK q \in Requests, o \in Otps : ExchangeOtp(q, o)
    BY <1>19
  <2>2. CASE r = q /\ LiveOtp(o)
    BY <2>1, <2>2, <1>3
  <2> QED BY <2>1, <2>2, <1>4, <1>12
<1>20. CASE \E q \in Requests, o \in Otps : CreateOtp(q, o)
  BY <1>20, <1>5, <1>12
<1>21. CASE \E q \in Requests, u \in Users : VerifyAccessToken(q, u)
  BY <1>21, <1>2, <1>12
<1>22. CASE \E q \in Requests, u \in Users,
               pc \in {"may have token", "may have otp"} : FindMember(q, u, pc)
  BY <1>22, <1>1, <1>12
<1> QED BY <1>11, <1>13, <1>14, <1>16, <1>17, <1>18, <1>19, <1>20, <1>21, <1>22

\* The system key is handed out at the end of an exchange only.
LEMMA HoldersSteps ==
    ASSUME [Next]_vars
    PROVE  UNCHANGED holders \/ \E r \in Requests : CreateAccessToken(r)
  BY DEF Next, GoOn, vars, AddMember, RemoveMember, DeleteTenant, RevokeApiKey,
         Tick, Restart, FindMember, ExchangeOtp, CreateOtp, AnswerOtp,
         VerifyAccessToken, ResolveSystemKey, Forward, AnswerProxy, Fail,
         ExchangeUnknownOtp

\* A key that is no longer accepted is never accepted again.
LEMMA KeySteps ==
    ASSUME [Next]_vars, key' = "usable"
    PROVE  key = "usable"
  BY DEF Next, GoOn, vars, AddMember, RemoveMember, DeleteTenant, RevokeApiKey,
         Tick, Restart, FindMember, ExchangeOtp, CreateOtp, AnswerOtp,
         CreateAccessToken, VerifyAccessToken, ResolveSystemKey, Forward,
         AnswerProxy, Fail, ExchangeUnknownOtp

\* Every step keeps the shape of every variable.
LEMMA TypeStep == TypeOK /\ [Next]_vars => TypeOK'
<1> SUFFICES ASSUME TypeOK, [Next]_vars PROVE TypeOK'
  OBVIOUS
<1>1. members' \subseteq Users /\ key' \in {"usable", "refused", "gone"}
  BY DEF TypeOK, Next, GoOn, vars, AddMember, RemoveMember, DeleteTenant,
         RevokeApiKey, Tick, Restart, FindMember, ExchangeOtp, CreateOtp,
         AnswerOtp, CreateAccessToken, VerifyAccessToken, ResolveSystemKey,
         Forward, AnswerProxy, Fail, ExchangeUnknownOtp
<1>2. otps' \in [Otps -> Entry \union {NoOtp}]
  <2>1. CASE Otps = {}
    BY <2>1 DEF TypeOK, Next, GoOn, vars, AddMember, RemoveMember,
         DeleteTenant, RevokeApiKey, Tick, Restart, FindMember, ExchangeOtp,
         CreateOtp, AnswerOtp, CreateAccessToken, VerifyAccessToken,
         ResolveSystemKey, Forward, AnswerProxy, Fail, WithOtp,
         ExchangeUnknownOtp, Cleaned
  <2> QED BY <2>1, OtpSteps
<1>3. tokens' \in [Users -> Expired..TokenTTL]
  <2>1. CASE Tick
    BY <2>1, HandoffAssumption DEF TypeOK, Tick, Less, Expired
  <2>2. ASSUME NEW r \in Requests, CreateAccessToken(r)
        PROVE  tokens' \in [Users -> Expired..TokenTTL]
    <3>1. TokenTTL \in Expired..TokenTTL
      BY HandoffAssumption DEF Expired
    <3>2. tokens' = [tokens EXCEPT ![req[r].user] = TokenTTL]
      BY <2>2 DEF CreateAccessToken
    <3> QED BY <3>1, <3>2 DEF TypeOK
  <2> QED BY <2>1, <2>2
          DEF TypeOK, Next, GoOn, vars, AddMember, RemoveMember, DeleteTenant,
              RevokeApiKey, Restart, FindMember, ExchangeOtp, CreateOtp,
              AnswerOtp, VerifyAccessToken, ResolveSystemKey, Forward,
              AnswerProxy, Fail, ExchangeUnknownOtp
<1>4. req' \in [Requests -> {Idle} \union Plain \union WithOtp]
  <2>1. \A r \in Requests : req'[r] \in {Idle} \union Plain \union WithOtp
    BY ReqSteps DEF TypeOK
  <2>2. req' = [r \in Requests |-> req'[r]]
    BY DEF TypeOK, Next, GoOn, vars, AddMember, RemoveMember, DeleteTenant,
           RevokeApiKey, Tick, Restart, FindMember, ExchangeOtp, CreateOtp,
           AnswerOtp, CreateAccessToken, VerifyAccessToken, ResolveSystemKey,
           Forward, AnswerProxy, Fail, Become, ExchangeUnknownOtp
  <2> QED BY <2>1, <2>2
<1>5. holders' \subseteq Users
  <2>1. ASSUME NEW r \in Requests, CreateAccessToken(r)
        PROVE  holders' \subseteq Users
    <3>1. req[r].user \in Users
      BY <2>1 DEF CreateAccessToken, TypeOK, Plain, WithOtp
    <3> QED BY <2>1, <3>1 DEF CreateAccessToken, TypeOK
  <2>2. UNCHANGED holders \/ \E r \in Requests : CreateAccessToken(r)
    BY HoldersSteps
  <2> QED BY <2>1, <2>2 DEF TypeOK
<1> QED BY <1>1, <1>2, <1>3, <1>4, <1>5 DEF TypeOK

\* A handler that exchanges an OTP after a step did so before, or has just
\* taken it out of the store.
LEMMA ExchangeSteps ==
    ASSUME TypeOK, [Next]_vars, NEW r \in Requests, NEW o \in Otps,
           Exchanging(r, o)'
    PROVE  \/ Exchanging(r, o)
           \/ ExchangeOtp(r, o) /\ LiveOtp(o) /\ otps'[o] = NoOtp
<1>1. /\ req'[r] \in WithOtp
      /\ req'[r].otp = o
      /\ req'[r].pc \in {"claims", "found key"}
  BY DEF Exchanging
<1>2. CASE req'[r] = req[r]
  BY <1>1, <1>2 DEF Exchanging
<1>3. CASE /\ req[r] \in WithOtp
           /\ req[r].pc = "claims"
           /\ req'[r].otp = req[r].otp
  BY <1>1, <1>3 DEF Exchanging
<1>4. CASE \E p \in Otps : /\ ExchangeOtp(r, p)
                           /\ LiveOtp(p)
                           /\ otps'[p] = NoOtp
                           /\ req'[r].otp = p
  BY <1>1, <1>4
<1>5. req'[r] # Idle /\ req'[r] \notin Plain /\ req'[r].pc # "made otp"
  BY <1>1, Shapes
<1> QED BY <1>2, <1>3, <1>4, <1>5, ReqSteps

\* Every step keeps the single use of OTPs.
LEMMA OtpStep == HandoffInv /\ [Next]_vars => OtpIsUsedOnce'
<1> SUFFICES ASSUME HandoffInv, [Next]_vars,
                    NEW r \in Requests, NEW o \in Otps, Exchanging(r, o)'
             PROVE  /\ otps'[o] = NoOtp
                    /\ \A s \in Requests : Exchanging(s, o)' => s = r
  BY DEF OtpIsUsedOnce
<1> USE DEF HandoffInv
<1>1. ASSUME NEW q \in Requests, ExchangeOtp(q, o), LiveOtp(o),
             NEW s \in Requests, Exchanging(s, o)'
      PROVE  s = q
  <2>1. otps[o] # NoOtp
    BY <1>1, Shapes DEF LiveOtp
  <2>2. ~Exchanging(s, o)
    BY <2>1 DEF OtpIsUsedOnce
  <2>3. ExchangeOtp(s, o)
    BY <1>1, <2>2, ExchangeSteps
  <2>4. req'[s] \in WithOtp
    BY <1>1 DEF Exchanging
  <2>5. s # q => req'[s] = req[s] /\ req[s] = Idle
    BY <1>1, <2>3 DEF ExchangeOtp, Become, TypeOK
  <2> QED BY <2>4, <2>5, Shapes
<1>2. CASE Exchanging(r, o)
  <2>1. otps[o] = NoOtp /\ ~LiveOtp(o)
    BY <1>2, Shapes DEF OtpIsUsedOnce, LiveOtp
  <2>2. \A q \in Requests : ~CreateOtp(q, o)
    BY <1>2 DEF CreateOtp, InUse, Exchanging
  <2>3. otps'[o] = NoOtp
    BY <2>1, <2>2, OtpSteps, Shapes
  <2>4. ASSUME NEW s \in Requests, Exchanging(s, o)' PROVE s = r
    <3>1. Exchanging(s, o)
      BY <2>1, <2>4, ExchangeSteps
    <3> QED BY <1>2, <3>1 DEF OtpIsUsedOnce
  <2> QED BY <2>3, <2>4
<1>3. CASE ExchangeOtp(r, o) /\ LiveOtp(o) /\ otps'[o] = NoOtp
  BY <1>1, <1>3
<1> QED BY <1>2, <1>3, ExchangeSteps

\* And so does the start.
LEMMA InitInv == Init => HandoffInv
<1> SUFFICES ASSUME Init PROVE HandoffInv
  OBVIOUS
<1>1. TypeOK
  BY HandoffAssumption DEF Init, TypeOK, Expired
<1>2. \A r \in Requests, o \in Otps : ~Exchanging(r, o)
  BY Shapes DEF Init, Exchanging
<1> QED BY <1>1, <1>2 DEF HandoffInv, OtpIsUsedOnce

\* The store, the tokens that are out and the handlers keep their types.
THEOREM HandoffTyped == Spec => []TypeOK
<1>1. HandoffInv /\ [Next]_vars => HandoffInv'
  BY TypeStep, OtpStep DEF HandoffInv
<1>2. HandoffInv => TypeOK
  BY DEF HandoffInv
<1> QED BY InitInv, <1>1, <1>2, PTL DEF Spec

\* The single use of OTPs, for any number of users, OTPs and handlers:
\* auth/session.py's store under the handlers of api/auth.py.
THEOREM OtpsAreUsedOnce == Spec => []OtpIsUsedOnce
<1>1. HandoffInv /\ [Next]_vars => HandoffInv'
  BY TypeStep, OtpStep DEF HandoffInv
<1>2. HandoffInv => OtpIsUsedOnce
  BY DEF HandoffInv
<1> QED BY InitInv, <1>1, <1>2, PTL DEF Spec

\* The way in is the membership: no step gives access to somebody who is no
\* member and has nothing left of the tenant.
LEMMA AccessStep ==
    ASSUME TypeOK, [Next]_vars, NEW u \in Users, u \notin members, ~HasAccess(u)
    PROVE  ~HasAccess(u)'
<1>1. \A r \in Requests : req[r] # Idle => req[r].user # u
  BY DEF HasAccess
<1>2. ~(tokens'[u] >= 0)
  <2>1. CASE Tick
    BY <2>1 DEF Tick, Less, HasAccess, TypeOK
  <2>2. ASSUME NEW r \in Requests, CreateAccessToken(r) PROVE tokens'[u] = tokens[u]
    BY <2>2, <1>1 DEF CreateAccessToken, TypeOK
  <2>3. CASE UNCHANGED tokens
    BY <2>3 DEF HasAccess
  <2> QED BY <2>1, <2>2, <2>3
          DEF HasAccess, Next, GoOn, vars, AddMember, RemoveMember,
              DeleteTenant, RevokeApiKey, Restart, FindMember, ExchangeOtp,
              CreateOtp, AnswerOtp, VerifyAccessToken, ResolveSystemKey,
              Forward, AnswerProxy, Fail, ExchangeUnknownOtp
<1>3. ASSUME NEW o \in Otps, LiveOtp(o)', otps'[o].user = u PROVE FALSE
  <2>1. otps'[o] \in Entry /\ otps'[o].left >= 0
    BY <1>3 DEF LiveOtp
  <2>2. CASE otps'[o] = otps[o]
    BY <1>3, <2>1, <2>2 DEF HasAccess, LiveOtp
  <2>3. CASE /\ otps[o] \in Entry
             /\ otps'[o].user = otps[o].user
             /\ otps'[o].left >= 0 => otps[o].left >= 0
    BY <1>3, <2>1, <2>3 DEF HasAccess, LiveOtp
  <2>4. ASSUME NEW r \in Requests, CreateOtp(r, o), otps'[o].user = req[r].user
        PROVE  FALSE
    BY <1>1, <1>3, <2>4 DEF CreateOtp
  <2>5. otps'[o] # NoOtp
    BY <2>1, Shapes
  <2> QED BY <2>2, <2>3, <2>4, <2>5, OtpSteps
<1>4. ASSUME NEW r \in Requests, req'[r] # Idle, req'[r].user = u PROVE FALSE
  <2>1. \A o \in Otps : LiveOtp(o) => otps[o].user # u
    BY DEF HasAccess
  <2>2. ~(tokens[u] >= 0)
    BY DEF HasAccess
  <2>3. req[r] = Idle \/ req[r].user # u
    BY <1>1
  <2>4. WithOtp \intersect {Idle} = {}
    BY Shapes
  <2> QED BY <1>4, <2>1, <2>2, <2>3, <2>4, ReqSteps
<1>5. ~HoldsKey(u)'
  <2>1. ASSUME NEW r \in Requests, CreateAccessToken(r), u \in holders'
        PROVE  u \in holders
    BY <2>1, <1>1 DEF CreateAccessToken
  <2>2. u \in holders' => u \in holders
    BY <2>1, HoldersSteps
  <2>3. ~(u \in holders /\ key = "usable")
    BY DEF HasAccess, HoldsKey
  <2> QED BY <2>2, <2>3, KeySteps DEF HoldsKey
<1> QED BY <1>2, <1>3, <1>4, <1>5 DEF HasAccess

\* Who is no member and has nothing left gets nothing: the checks of api/auth.py.
THEOREM MembershipIsTheWayIn == Spec => AccessNeedsMembership
<1>1. TypeOK /\ [Next]_vars =>
          [\A u \in Users : u \notin members /\ ~HasAccess(u) => ~HasAccess(u)']_vars
  BY AccessStep
<1> QED BY <1>1, HandoffTyped, PTL DEF Spec, AccessNeedsMembership

=============================================================================
