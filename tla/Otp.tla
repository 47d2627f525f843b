-------------------------------- MODULE Otp --------------------------------
(***************************************************************************)
(* The one-time codes of one phone number and the account they open:       *)
(* POST /auth/request-otp, verify-otp and register.                        *)
(*                                                                         *)
(* Codes are numbered in the order of createdAt.  A request in flight is   *)
(* in a slot and other requests run at its awaits.  The transaction of     *)
(* createOtp counts, then updates the rows it sees when the UPDATE begins, *)
(* then inserts (READ COMMITTED); its writes appear at the insert.         *)
(***************************************************************************)
EXTENDS Integers, FiniteSets

CONSTANTS
  MaxCodes,     \* bound on the codes ever requested
  Slots,        \* requests handled at the same time
  HourlyLimit,  \* OTP_HOURLY_LIMIT
  MaxAttempts   \* OTP_MAX_VERIFY_ATTEMPTS

ASSUME LimitsAssumption ==
  /\ MaxCodes \in Nat \ {0}
  /\ HourlyLimit \in Nat \ {0}
  /\ MaxAttempts \in Nat \ {0}
ASSUME SlotsAssumption == IsFiniteSet(Slots) /\ Slots # {}

Codes == 1..MaxCodes

VARIABLES
  otp,      \* otp_requests
  grant,    \* the registration token signed for a code
  account,  \* users: the row with this phone, and the code it was registered with
  req,      \* the request in each slot
  uses      \* history: how often a code was accepted

vars == <<otp, grant, account, req, uses>>

\* A row is drafted by a transaction before it is there; expired: expiresAt has
\* passed; recent: createdAt is less than an hour ago.
OtpRow ==
  [row : {"NONE", "DRAFT", "THERE", "GONE"}, verified : BOOLEAN,
   attempts : 0..MaxAttempts, expired : BOOLEAN, recent : BOOLEAN]
NoOtp ==
  [row |-> "NONE", verified |-> FALSE, attempts |-> 0, expired |-> FALSE, recent |-> TRUE]
Deleted == [NoOtp EXCEPT !.row = "GONE"]

\* seen: the rows that the UPDATE of createOtp has found; code 0: none.
Request ==
  [op : {"idle", "send", "verify", "register"},
   step : {"begin", "invalidate", "insert", "sms", "delete", "compare", "lookup"},
   code : 0..MaxCodes, seen : SUBSET Codes]
Idle == [op |-> "idle", step |-> "begin", code |-> 0, seen |-> {}]

Init ==
  /\ otp = [c \in Codes |-> NoOtp]
  /\ grant = [c \in Codes |-> "none"]
  /\ account = [exists |-> FALSE, code |-> 0]
  /\ req = [s \in Slots |-> Idle]
  /\ uses = [c \in Codes |-> 0]

There == {c \in Codes : otp[c].row = "THERE"}

At(s, op, step)      == req[s].op = op /\ req[s].step = step
Goto(s, step)        == req' = [req EXCEPT ![s].step = step]
Done(s)              == req' = [req EXCEPT ![s] = Idle]
Arrive(s, op, st, c) ==
  req[s] = Idle /\ req' = [req EXCEPT ![s] = [op |-> op, step |-> st, code |-> c, seen |-> {}]]

-----------------------------------------------------------------------------
(* POST /auth/request-otp: createOtp, then the message.                    *)

SendArrives(s) ==
  /\ Arrive(s, "send", "begin", 0)
  /\ UNCHANGED <<otp, grant, account, uses>>

\* Variant: accepted codes are left out of the count.
Counted_Unverified == {c \in There : otp[c].recent /\ ~otp[c].verified}
Counted == {c \in There : otp[c].recent}

NextCode(c) == otp[c].row = "NONE" /\ \A d \in Codes : d < c => otp[d].row # "NONE"

SendCounts(s) ==
  /\ At(s, "send", "begin")
  /\ Cardinality(Counted) < HourlyLimit
  /\ \E c \in Codes :
       /\ NextCode(c)
       /\ otp' = [otp EXCEPT ![c].row = "DRAFT"]
       /\ req' = [req EXCEPT ![s].step = "invalidate", ![s].code = c]
  /\ UNCHANGED <<grant, account, uses>>

\* 429; a request beyond the bound MaxCodes ends here too.
SendRefused(s) ==
  /\ At(s, "send", "begin")
  /\ Cardinality(Counted) >= HourlyLimit \/ \A c \in Codes : otp[c].row # "NONE"
  /\ Done(s)
  /\ UNCHANGED <<otp, grant, account, uses>>

SendInvalidates(s) ==
  /\ At(s, "send", "invalidate")
  /\ req' = [req EXCEPT ![s].step = "insert", ![s].seen = {c \in There : ~otp[c].verified}]
  /\ UNCHANGED <<otp, grant, account, uses>>

\* The commit: a row that was accepted or deleted meanwhile is not touched.
SendInserts(s) ==
  /\ At(s, "send", "insert")
  /\ otp' = [c \in Codes |->
       IF c = req[s].code THEN [otp[c] EXCEPT !.row = "THERE"]
       ELSE IF c \in req[s].seen \cap There /\ ~otp[c].verified
            THEN [otp[c] EXCEPT !.expired = TRUE]
       ELSE otp[c]]
  /\ req' = [req EXCEPT ![s].step = "sms", ![s].seen = {}]
  /\ UNCHANGED <<grant, account, uses>>

SmsSent(s) ==
  /\ At(s, "send", "sms")
  /\ Done(s)
  /\ UNCHANGED <<otp, grant, account, uses>>
SmsFails(s) ==
  /\ At(s, "send", "sms")
  /\ Goto(s, "delete")
  /\ UNCHANGED <<otp, grant, account, uses>>

\* deleteOtp; its own failure is swallowed.
DeleteOtp(s) ==
  /\ At(s, "send", "delete")
  /\ \/ otp' = [otp EXCEPT ![req[s].code] = Deleted]
     \/ otp' = otp
  /\ Done(s)
  /\ UNCHANGED <<grant, account, uses>>

-----------------------------------------------------------------------------
(* POST /auth/verify-otp.                                                  *)

Usable == {c \in There : ~otp[c].verified /\ ~otp[c].expired /\ otp[c].attempts < MaxAttempts}

\* The newest usable row; without one the answer is 401.
VerifyReads(s) ==
  /\ \E c \in Usable :
       /\ \A d \in Usable : d <= c
       /\ Arrive(s, "verify", "compare", c)
  /\ UNCHANGED <<otp, grant, account, uses>>

\* What both guarded updates repeat: not whether the code has expired since.
\* Variants: the accepted rows, or the locked ones, are let through.
Open_Verified(c) == c \in There /\ otp[c].attempts < MaxAttempts
Open_Locked(c)   == c \in There /\ ~otp[c].verified
Open(c)          == c \in There /\ ~otp[c].verified /\ otp[c].attempts < MaxAttempts

\* Variant: attempts is written as one more than what was read of it, unguarded.
Mismatch_Unguarded(s) ==
  /\ At(s, "verify", "compare") /\ req[s].code \in There
  /\ otp' = [otp EXCEPT ![req[s].code].attempts = @ + 1]
  /\ Done(s)
  /\ UNCHANGED <<grant, account, uses>>
Mismatch(s) ==
  /\ At(s, "verify", "compare") /\ Open(req[s].code)
  /\ otp' = [otp EXCEPT ![req[s].code].attempts = @ + 1]
  /\ Done(s)
  /\ UNCHANGED <<grant, account, uses>>
Match(s) ==
  /\ At(s, "verify", "compare") /\ Open(req[s].code)
  /\ otp' = [otp EXCEPT ![req[s].code].verified = TRUE]
  /\ uses' = [uses EXCEPT ![req[s].code] = @ + 1]
  /\ Goto(s, "lookup")
  /\ UNCHANGED <<grant, account>>
VerifyRefused(s) ==
  /\ At(s, "verify", "compare") /\ ~Open(req[s].code)
  /\ Done(s)
  /\ UNCHANGED <<otp, grant, account, uses>>

\* With an account the answer is a login (LoginArrives of Sessions).
LogsIn(s) ==
  /\ At(s, "verify", "lookup") /\ account.exists
  /\ Done(s)
  /\ UNCHANGED <<otp, grant, account, uses>>
GrantsRegistration(s) ==
  /\ At(s, "verify", "lookup") /\ ~account.exists
  /\ grant' = [grant EXCEPT ![req[s].code] = "valid"]
  /\ Done(s)
  /\ UNCHANGED <<otp, account, uses>>

-----------------------------------------------------------------------------
(* POST /auth/register, and the other way to an account.                   *)

RegisterArrives(s, c) ==
  /\ grant[c] = "valid"
  /\ Arrive(s, "register", "begin", c)
  /\ UNCHANGED <<otp, grant, account, uses>>

Consumable(c) == c \in There /\ otp[c].verified /\ ~otp[c].expired

\* The transaction: the row is locked by its consumption, the phone is unique.
\* Variants: the row is not consumed; an existing account is overwritten.
Register_NotConsumed(s) ==
  /\ At(s, "register", "begin") /\ Consumable(req[s].code) /\ ~account.exists
  /\ account' = [exists |-> TRUE, code |-> req[s].code]
  /\ Done(s)
  /\ UNCHANGED <<otp, grant, uses>>
Register_Upserts(s) ==
  /\ At(s, "register", "begin") /\ Consumable(req[s].code)
  /\ otp' = [otp EXCEPT ![req[s].code].expired = TRUE]
  /\ account' = [exists |-> TRUE, code |-> req[s].code]
  /\ Done(s)
  /\ UNCHANGED <<grant, uses>>
Register(s) ==
  /\ At(s, "register", "begin") /\ Consumable(req[s].code) /\ ~account.exists
  /\ otp' = [otp EXCEPT ![req[s].code].expired = TRUE]
  /\ account' = [exists |-> TRUE, code |-> req[s].code]
  /\ Done(s)
  /\ UNCHANGED <<grant, uses>>

\* 401, or 409 with the consumption rolled back.
RegisterRefused(s) ==
  /\ At(s, "register", "begin") /\ (~Consumable(req[s].code) \/ account.exists)
  /\ Done(s)
  /\ UNCHANGED <<otp, grant, account, uses>>

CreateAdmin ==
  /\ ~account.exists
  /\ account' = [exists |-> TRUE, code |-> 0]
  /\ UNCHANGED <<otp, grant, req, uses>>

-----------------------------------------------------------------------------
(* Time, the daily purge, and a restart, which rolls transactions back.    *)

CodeExpires(c) ==
  /\ c \in There /\ ~otp[c].expired
  /\ otp' = [otp EXCEPT ![c].expired = TRUE]
  /\ UNCHANGED <<grant, account, req, uses>>
HourPasses(c) ==
  /\ c \in There /\ otp[c].expired /\ otp[c].recent
  /\ otp' = [otp EXCEPT ![c].recent = FALSE]
  /\ UNCHANGED <<grant, account, req, uses>>
GrantExpires(c) ==
  /\ grant[c] = "valid"
  /\ grant' = [grant EXCEPT ![c] = "expired"]
  /\ UNCHANGED <<otp, account, req, uses>>

Purge(old) ==
  /\ old # {}
  /\ otp' = [c \in Codes |-> IF c \in old THEN Deleted ELSE otp[c]]
  /\ UNCHANGED <<grant, account, req, uses>>

Crash ==
  /\ \E s \in Slots : req[s] # Idle
  /\ req' = [s \in Slots |-> Idle]
  /\ otp' = [c \in Codes |->
       IF otp[c].row = "DRAFT" THEN Deleted ELSE otp[c]]
  /\ UNCHANGED <<grant, account, uses>>

-----------------------------------------------------------------------------
Send(s) ==
  \/ SendArrives(s) \/ SendCounts(s) \/ SendRefused(s) \/ SendInvalidates(s)
  \/ SendInserts(s) \/ SmsSent(s) \/ SmsFails(s) \/ DeleteOtp(s)
Verify(s) ==
  \/ VerifyReads(s) \/ Mismatch(s) \/ Match(s) \/ VerifyRefused(s)
  \/ LogsIn(s) \/ GrantsRegistration(s)
Registration(s) ==
  \/ \E c \in Codes : RegisterArrives(s, c)
  \/ Register(s) \/ RegisterRefused(s)
Time ==
  \/ \E c \in Codes : CodeExpires(c) \/ HourPasses(c) \/ GrantExpires(c)
  \/ \E old \in SUBSET {c \in There : ~otp[c].recent} : Purge(old)

Next ==
  \/ \E s \in Slots : Send(s) \/ Verify(s) \/ Registration(s)
  \/ CreateAdmin \/ Time \/ Crash

Spec == Init /\ [][Next]_vars

-----------------------------------------------------------------------------
(* Correctness.                                                            *)

\* Every row and request keeps its shape; no code takes more wrong guesses than
\* the cap, however many were in flight (verifyOtp, UGNAY_BRD.md:163).
CodesTypeOK ==
  /\ otp \in [Codes -> OtpRow]
  /\ grant \in [Codes -> {"none", "valid", "expired"}]
  /\ account \in [exists : BOOLEAN, code : 0..MaxCodes]
  /\ req \in [Slots -> Request]
  /\ \A s \in Slots : req[s].op # "idle" /\ ~At(s, "send", "begin") => req[s].code \in Codes
  /\ uses \in [Codes -> Nat]

\* A code is accepted once, however many requests had read it as open (verifyOtp).
AcceptedOnce == \A c \in Codes : uses[c] <= 1

\* A locked code is never accepted, also not by a request that read it before it
\* was locked (verifyOtp, UGNAY_BRD.md:163).
LockedForGood ==
  [][\A c \in Codes :
       otp[c].attempts = MaxAttempts /\ ~otp[c].verified => ~otp'[c].verified]_vars

\* `At most 5 OTPs per hour' (UGNAY_BRD.md:158) is not kept: requests that count at the
\* same time each send one.  What is kept: they pass the limit by at most one for every
\* other slot (createOtp).
HourlyOvershoot ==
  Cardinality({c \in There : otp[c].recent}) <= HourlyLimit + Cardinality(Slots) - 1

\* The account registered with a code rests on a code that was accepted, and
\* uses it up: no second registration with it (register, consumeForRegistration).
RegistrationRestsOnCode ==
  account.exists /\ account.code # 0 =>
    LET c == account.code IN
    /\ uses[c] = 1 /\ grant[c] # "none"
    /\ ~Consumable(c)

\* An account is not taken over by a registration in flight (register).
AccountKeepsOrigin == [][account.exists => account' = account]_vars
=============================================================================
