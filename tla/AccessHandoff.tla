---------------------------- MODULE AccessHandoff ----------------------------
(***************************************************************************)
(* How a member of a tenant gets at its data: an access token that the     *)
(* proxy accepts, or a one-time password that the control plane exchanges  *)
(* for such a token.  Both are given on one look at the membership and     *)
(* live on without it; the proxy and the exchange depend on the tenant's   *)
(* system key, which is made once and may be revoked.  The exchange also   *)
(* answers that key itself, and the data plane accepts it from anybody.    *)
(*                                                                         *)
(* One tenant, one manager process.  Times are what is left of a lifetime, *)
(* so that the clock needs no bound: an entry is good while 0 or more is   *)
(* left, as "now > expires" has it.                                        *)
(***************************************************************************)
EXTENDS Integers

CONSTANTS
    Users,
    Otps,     \* values of one-time passwords; a fresh one is not in use
    Requests, \* handler executions that may overlap
    OtpTTL,   \* OTP_EXPIRE_SECONDS
    TokenTTL  \* ACCESS_TOKEN_EXPIRE_MINUTES

ASSUME HandoffAssumption == OtpTTL \in Nat /\ TokenTTL \in Nat

VARIABLES
    members, \* users with a row in tenant_members
    key,     \* the system key: "usable", "refused" by the data plane, "gone"
    otps,    \* _otp_store; "sent" once the answer with the OTP is out
    tokens,  \* what is left of the latest access token of each user
    holders, \* users for whom an exchange has answered the decrypted system key
    req      \* the handlers in progress

vars == <<members, key, otps, tokens, holders, req>>

Expired == -1
NoOtp == [left |-> Expired, sent |-> FALSE]
Idle == [pc |-> "idle"]

Entry == [user : Users, left : Expired..OtpTTL, sent : BOOLEAN]

\* Handlers that have found the membership, those of the proxy, the one that
\* made an OTP, and those that exchange one.
Plain == [pc : {"may have token", "may have otp", "verified", "forwarding",
                "serving"}, user : Users]
WithOtp == [pc : {"made otp", "claims", "found key"}, user : Users, otp : Otps]

Exchanging(r, o) == /\ req[r] \in WithOtp /\ req[r].otp = o
                    /\ req[r].pc \in {"claims", "found key"}
InUse(o) == \E r \in Requests : req[r] \in WithOtp /\ req[r].otp = o

LiveOtp(o) == otps[o] \in Entry /\ otps[o].left >= 0

Init ==
    /\ members \in SUBSET Users
    /\ key = "usable"
    /\ otps = [o \in Otps |-> NoOtp]
    /\ tokens = [u \in Users |-> Expired]
    /\ holders = {}
    /\ req = [r \in Requests |-> Idle]

----------------------------------------------------------------------------

\* What other handlers commit in between: members come and go, a delete takes
\* the tenant out of the data plane for good, and a revoke deletes the key.
AddMember(u) ==
    /\ members' = members \union {u}
    /\ UNCHANGED <<key, otps, tokens, holders, req>>

RemoveMember(u) ==
    /\ members' = members \ {u}
    /\ UNCHANGED <<key, otps, tokens, holders, req>>

DeleteTenant ==
    /\ key = "usable"
    /\ key' = "refused"
    /\ UNCHANGED <<members, otps, tokens, holders, req>>

RevokeApiKey ==
    /\ key' = "gone"
    /\ UNCHANGED <<members, otps, tokens, holders, req>>

\* A unit of time.  The store keeps an expired OTP until somebody cleans up.
Less(left) == IF left >= 0 THEN left - 1 ELSE left

Tick ==
    /\ otps' = [o \in Otps |-> [otps[o] EXCEPT !.left = Less(@)]]
    /\ tokens' = [u \in Users |-> Less(tokens[u])]
    /\ UNCHANGED <<members, key, holders, req>>

\* The manager starts again: the store and the handlers are gone.
Restart ==
    /\ otps' = [o \in Otps |-> NoOtp]
    /\ req' = [r \in Requests |-> Idle]
    /\ UNCHANGED <<members, key, tokens, holders>>

----------------------------------------------------------------------------

Become(r, state) == req' = [req EXCEPT ![r] = state]

\* Slip: who is logged in need not be a member.
FindAnyUser(r, u, pc) ==
    /\ req[r] = Idle
    /\ Become(r, [pc |-> pc, user |-> u])
    /\ UNCHANGED <<members, key, otps, tokens, holders>>

\* POST /auth/access-token and /auth/otp find the caller's row, else 403.
FindMember(r, u, pc) ==
    /\ req[r] = Idle
    /\ u \in members
    /\ Become(r, [pc |-> pc, user |-> u])
    /\ UNCHANGED <<members, key, otps, tokens, holders>>

\* Slip: the token's lifetime starts where that of the OTP ends.
AddsLifetimes(r) ==
    /\ req[r] # Idle
    /\ req[r].pc \in {"may have token", "found key"}
    /\ tokens' = [tokens EXCEPT ![req[r].user] = OtpTTL + TokenTTL + 1]
    /\ holders' = holders
    /\ Become(r, Idle)
    /\ UNCHANGED <<members, key, otps>>

\* create_access_token, at the end of /auth/access-token and of the exchange,
\* which answers api_key=decrypted_key beside the token.
CreateAccessToken(r) ==
    /\ req[r] # Idle
    /\ req[r].pc \in {"may have token", "found key"}
    /\ tokens' = [tokens EXCEPT ![req[r].user] = TokenTTL]
    /\ holders' = IF req[r].pc = "found key" THEN holders \union {req[r].user}
                  ELSE holders
    /\ Become(r, Idle)
    /\ UNCHANGED <<members, key, otps>>

\* _cleanup_expired_otps.
Cleaned == [o \in Otps |-> IF LiveOtp(o) THEN otps[o] ELSE NoOtp]

\* create_otp: clean up, then store a fresh value.
CreateOtp(r, o) ==
    /\ req[r] # Idle
    /\ req[r].pc = "may have otp"
    /\ ~LiveOtp(o)
    /\ ~InUse(o)
    /\ otps' = [Cleaned EXCEPT ![o] = [user |-> req[r].user, left |-> OtpTTL,
                                       sent |-> FALSE]]
    /\ Become(r, [pc |-> "made otp", user |-> req[r].user, otp |-> o])
    /\ UNCHANGED <<members, key, tokens, holders>>

\* The answer, once the tenant's slug is looked up; the OTP may be gone by then.
AnswerOtp(r) ==
    /\ req[r] \in WithOtp
    /\ req[r].pc = "made otp"
    /\ otps' = IF LiveOtp(req[r].otp)
               THEN [otps EXCEPT ![req[r].otp].sent = TRUE] ELSE otps
    /\ Become(r, Idle)
    /\ UNCHANGED <<members, key, tokens, holders>>

\* Slip: the OTP is read and not taken out.
ReadsOtp(r, o) ==
    /\ req[r] = Idle
    /\ otps[o].sent
    /\ otps' = Cleaned
    /\ Become(r, IF LiveOtp(o)
                 THEN [pc |-> "claims", user |-> otps[o].user, otp |-> o]
                 ELSE Idle)
    /\ UNCHANGED <<members, key, tokens, holders>>

\* exchange_otp: clean up, take the OTP out; an expired one is a 401.
ExchangeOtp(r, o) ==
    /\ req[r] = Idle
    /\ otps[o].sent
    /\ otps' = [Cleaned EXCEPT ![o] = NoOtp]
    /\ Become(r, IF LiveOtp(o)
                 THEN [pc |-> "claims", user |-> otps[o].user, otp |-> o]
                 ELSE Idle)
    /\ UNCHANGED <<members, key, tokens, holders>>

\* The 401 of an OTP that is not in the store, which has cleaned up as well.
ExchangeUnknownOtp ==
    /\ otps' = Cleaned
    /\ UNCHANGED <<members, key, tokens, holders, req>>

\* The proxy verifies the token of its caller.
VerifyAccessToken(r, u) ==
    /\ req[r] = Idle
    /\ tokens[u] >= 0
    /\ Become(r, [pc |-> "verified", user |-> u])
    /\ UNCHANGED <<members, key, otps, tokens, holders>>

\* The row of the system key; without it the proxy and the exchange answer 500,
\* whatever was taken from the store before.
KeyInTable == key # "gone"

ResolveSystemKey(r) ==
    /\ req[r] # Idle
    /\ req[r].pc \in {"claims", "verified"}
    /\ Become(r, IF ~KeyInTable THEN Idle
                 ELSE [req[r] EXCEPT !.pc =
                           IF @ = "claims" THEN "found key" ELSE "forwarding"])
    /\ UNCHANGED <<members, key, otps, tokens, holders>>

\* The data plane authenticates the forwarded request by the key it carries.
Forward(r) ==
    /\ req[r] # Idle
    /\ req[r].pc = "forwarding"
    /\ Become(r, IF key = "usable" THEN [req[r] EXCEPT !.pc = "serving"] ELSE Idle)
    /\ UNCHANGED <<members, key, otps, tokens, holders>>


\* The answer of the data plane is passed on.
AnswerProxy(r) ==
    /\ req[r] # Idle
    /\ req[r].pc = "serving"
    /\ Become(r, Idle)
    /\ UNCHANGED <<members, key, otps, tokens, holders>>

\* Any other end: a database error, a timeout, a client that goes away.
Fail(r) ==
    /\ req[r] # Idle
    /\ Become(r, Idle)
    /\ UNCHANGED <<members, key, otps, tokens, holders>>

GoOn(r) ==
    \/ CreateAccessToken(r)
    \/ \E o \in Otps : CreateOtp(r, o)
    \/ AnswerOtp(r)
    \/ ResolveSystemKey(r)
    \/ Forward(r)
    \/ AnswerProxy(r)

Next ==
    \/ \E u \in Users : AddMember(u)
    \/ \E u \in Users : RemoveMember(u)
    \/ DeleteTenant
    \/ RevokeApiKey
    \/ Tick
    \/ Restart
    \/ \E r \in Requests, u \in Users, pc \in {"may have token", "may have otp"} :
           FindMember(r, u, pc)
    \/ \E r \in Requests, o \in Otps : ExchangeOtp(r, o)
    \/ ExchangeUnknownOtp
    \/ \E r \in Requests, u \in Users : VerifyAccessToken(r, u)
    \/ \E r \in Requests : GoOn(r)
    \/ \E r \in Requests : Fail(r)

Spec == Init /\ [][Next]_vars

\* Time passes, and every handler goes on: its queries are answered, and the
\* proxy's client has a timeout.  Strong fairness stands for a store without a
\* bound: a handler that needs a fresh OTP never waits for one in the code.
FairSpec ==
    /\ Spec
    /\ WF_vars(Tick)
    /\ \A r \in Requests : SF_vars(GoOn(r))

----------------------------------------------------------------------------

\* Every variable keeps its shape.
TypeOK ==
    /\ members \subseteq Users
    /\ key \in {"usable", "refused", "gone"}
    /\ otps \in [Otps -> Entry \union {NoOtp}]
    /\ tokens \in [Users -> Expired..TokenTTL]
    /\ holders \subseteq Users
    /\ req \in [Requests -> {Idle} \union Plain \union WithOtp]

\* An OTP is good for one exchange: while one is under way the OTP is not in
\* the store, and no other handler exchanges it, whatever is retried and
\* cleaned up at the same time.
OtpIsUsedOnce ==
    \A r \in Requests, o \in Otps :
        Exchanging(r, o) =>
            /\ otps[o] = NoOtp
            /\ \A s \in Requests : Exchanging(s, o) => s = r

\* Whoever was answered the system key calls the data plane with it: no
\* membership is asked for and nothing expires, as long as the key is accepted.
HoldsKey(u) == u \in holders /\ key = "usable"

\* What a user still has of the tenant.
HasAccess(u) ==
    \/ tokens[u] >= 0
    \/ HoldsKey(u)
    \/ \E o \in Otps : LiveOtp(o) /\ otps[o].user = u
    \/ \E r \in Requests : req[r] # Idle /\ req[r].user = u

\* Who is no member and has nothing left of the tenant gets nothing, not from
\* the OTPs, tokens or handlers of others: the way in is the membership.
AccessNeedsMembership ==
    [][\A u \in Users :
           u \notin members /\ ~HasAccess(u) => ~HasAccess(u)']_vars


=============================================================================
