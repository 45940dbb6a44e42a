\* One tenant; an OTP that ages in the store, a token good for one unit of time.
SPECIFICATION FairSpec
CONSTANTS
    Users = {u1, u2}
    Otps = {o1}
    Requests = {r1, r2}
    OtpTTL = 1
    TokenTTL = 0
INVARIANTS TypeOK OtpIsUsedOnce
PROPERTIES AccessNeedsMembership 
