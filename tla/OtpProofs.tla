----------------------------- MODULE OtpProofs -----------------------------
(***************************************************************************)
(* Theorems about Otp, for any number of codes and of requests in flight,  *)
(* and any limits.                                                         *)
(***************************************************************************)
EXTENDS Otp, FiniteSetTheorems, TLAPS

\* There is a code number for none.
LEMMA CodesAreNumbers == Codes \subseteq 0..MaxCodes /\ 0 \notin Codes /\ 0 \in 0..MaxCodes
  BY LimitsAssumption DEF Codes

\* A row that is changed or deleted is a row (otp_requests).
LEMMA RowUpdates ==
  /\ Deleted \in OtpRow /\ NoOtp \in OtpRow
  /\ \A r \in OtpRow :
       /\ [r EXCEPT !.row = "DRAFT"] \in OtpRow /\ [r EXCEPT !.row = "THERE"] \in OtpRow
       /\ [r EXCEPT !.verified = TRUE] \in OtpRow /\ [r EXCEPT !.expired = TRUE] \in OtpRow
       /\ [r EXCEPT !.recent = FALSE] \in OtpRow
       /\ \A n \in 0..MaxAttempts : [r EXCEPT !.attempts = n] \in OtpRow
<1>1. 0 \in 0..MaxAttempts
  BY LimitsAssumption
<1>2. Deleted \in OtpRow /\ NoOtp \in OtpRow
  BY <1>1 DEF OtpRow, Deleted, NoOtp
<1>3. ASSUME NEW r \in OtpRow PROVE [r EXCEPT !.row = "DRAFT"] \in OtpRow
  BY DEF OtpRow
<1>4. ASSUME NEW r \in OtpRow PROVE [r EXCEPT !.row = "THERE"] \in OtpRow
  BY DEF OtpRow
<1>5. ASSUME NEW r \in OtpRow PROVE [r EXCEPT !.verified = TRUE] \in OtpRow
  BY DEF OtpRow
<1>6. ASSUME NEW r \in OtpRow PROVE [r EXCEPT !.expired = TRUE] \in OtpRow
  BY DEF OtpRow
<1>7. ASSUME NEW r \in OtpRow PROVE [r EXCEPT !.recent = FALSE] \in OtpRow
  BY DEF OtpRow
<1>8. ASSUME NEW r \in OtpRow, NEW n \in 0..MaxAttempts PROVE [r EXCEPT !.attempts = n] \in OtpRow
  BY DEF OtpRow
<1> QED
  BY <1>2, <1>3, <1>4, <1>5, <1>6, <1>7, <1>8

\* A request that moves on is a request (the handlers of auth.service.ts).
LEMMA RequestUpdates ==
  /\ Idle \in Request /\ Idle.op = "idle"
  /\ \A r \in Request :
       \A st \in {"invalidate", "insert", "sms", "delete", "compare", "lookup"} :
         /\ [r EXCEPT !.step = st] \in Request
         /\ \A c \in Codes : [r EXCEPT !.step = st, !.code = c] \in Request
         /\ \A seen \in SUBSET Codes : [r EXCEPT !.step = st, !.seen = seen] \in Request
<1>1. Idle \in Request /\ Idle.op = "idle"
  BY CodesAreNumbers DEF Request, Idle
<1>2. ASSUME NEW r \in Request,
             NEW st \in {"invalidate", "insert", "sms", "delete", "compare", "lookup"}
      PROVE  /\ [r EXCEPT !.step = st] \in Request
             /\ \A c \in Codes : [r EXCEPT !.step = st, !.code = c] \in Request
             /\ \A seen \in SUBSET Codes : [r EXCEPT !.step = st, !.seen = seen] \in Request
  <2>1. [r EXCEPT !.step = st] \in Request
    BY DEF Request
  <2>2. \A c \in Codes : [r EXCEPT !.step = st, !.code = c] \in Request
    BY CodesAreNumbers DEF Request
  <2>3. \A seen \in SUBSET Codes : [r EXCEPT !.step = st, !.seen = seen] \in Request
    BY DEF Request
  <2> QED
    BY <2>1, <2>2, <2>3
<1> QED
  BY <1>1, <1>2

\* Nothing is there at the start.
LEMMA InitTyped == Init => CodesTypeOK
<1> SUFFICES ASSUME Init PROVE CodesTypeOK
  OBVIOUS
<1>1. otp \in [Codes -> OtpRow]
  BY RowUpdates DEF Init
<1>2. req \in [Slots -> Request] /\ \A s \in Slots : req[s].op = "idle"
  BY RequestUpdates DEF Init
<1> QED
  BY <1>1, <1>2, CodesAreNumbers DEF Init, CodesTypeOK

\* The steps of a request for a code keep the types (createOtp, sendOtp).
LEMMA SendTyped ==
  ASSUME CodesTypeOK, NEW s \in Slots, Send(s)
  PROVE  CodesTypeOK'
<1> USE CodesAreNumbers DEF CodesTypeOK, At, Goto, Done
<1>1. CASE SendArrives(s)
  BY <1>1 DEF SendArrives, Arrive, Request
<1>2. CASE SendCounts(s)
  <2> PICK c \in Codes :
        /\ otp' = [otp EXCEPT ![c].row = "DRAFT"]
        /\ req' = [req EXCEPT ![s].step = "invalidate", ![s].code = c]
    BY <1>2 DEF SendCounts
  <2>1. otp' \in [Codes -> OtpRow]
    BY RowUpdates
  <2>2. req' \in [Slots -> Request]
    BY RequestUpdates
  <2>3. req'[s].code = c /\ \A u \in Slots : u # s => req'[u] = req[u]
    BY DEF Request
  <2> QED
    BY <1>2, <2>1, <2>2, <2>3 DEF SendCounts
<1>3. CASE SendRefused(s)
  BY <1>3, RequestUpdates DEF SendRefused, Idle
<1>4. CASE SendInvalidates(s)
  <2> DEFINE seen == {c \in There : ~otp[c].verified}
  <2>1. seen \in SUBSET Codes
    BY DEF There
  <2>2. req' = [req EXCEPT ![s].step = "insert", ![s].seen = seen]
    BY <1>4 DEF SendInvalidates
  <2> HIDE DEF seen
  <2>3. req' \in [Slots -> Request]
    BY <2>1, <2>2, RequestUpdates
  <2>4. /\ req[s].code \in Codes
        /\ req'[s].code = req[s].code
        /\ \A u \in Slots : u # s => req'[u] = req[u]
    BY <1>4, <2>2 DEF SendInvalidates, Request
  <2> QED
    BY <1>4, <2>3, <2>4 DEF SendInvalidates
<1>5. CASE SendInserts(s)
  <2>1. otp' \in [Codes -> OtpRow]
    BY <1>5, RowUpdates DEF SendInserts
  <2>2. req' = [req EXCEPT ![s].step = "sms", ![s].seen = {}]
    BY <1>5 DEF SendInserts
  <2>3. req' \in [Slots -> Request]
    BY <2>2, RequestUpdates, CodesAreNumbers
  <2>4. /\ req[s].code \in Codes
        /\ req'[s].code = req[s].code
        /\ \A u \in Slots : u # s => req'[u] = req[u]
    BY <1>5, <2>2 DEF SendInserts, Request
  <2> QED
    BY <1>5, <2>1, <2>3, <2>4 DEF SendInserts
<1>6. CASE SmsSent(s)
  BY <1>6, RequestUpdates DEF SmsSent, Idle
<1>7. CASE SmsFails(s)
  <2>1. req' \in [Slots -> Request]
    BY <1>7, RequestUpdates DEF SmsFails
  <2>2. /\ req[s].code \in Codes
        /\ req'[s].code = req[s].code
        /\ \A u \in Slots : u # s => req'[u] = req[u]
    BY <1>7 DEF SmsFails, Request
  <2> QED
    BY <1>7, <2>1, <2>2 DEF SmsFails
<1>8. CASE DeleteOtp(s)
  <2>1. otp' \in [Codes -> OtpRow]
    BY <1>8, RowUpdates DEF DeleteOtp
  <2> QED
    BY <1>8, <2>1, RequestUpdates DEF DeleteOtp, Idle
<1> QED
  BY <1>1, <1>2, <1>3, <1>4, <1>5, <1>6, <1>7, <1>8 DEF Send

\* So do those of a verification; the guard of the increment keeps the attempts
\* below the cap (verifyOtp).
LEMMA VerifyTyped ==
  ASSUME CodesTypeOK, NEW s \in Slots, Verify(s)
  PROVE  CodesTypeOK'
<1> USE CodesAreNumbers DEF CodesTypeOK, At, Goto, Done
<1>1. CASE VerifyReads(s)
  BY <1>1 DEF VerifyReads, Arrive, Usable, There, Request
<1>2. CASE Mismatch(s)
  <2>1. req[s].code \in Codes /\ otp[req[s].code] \in OtpRow
    BY <1>2 DEF Mismatch
  <2>2. otp[req[s].code].attempts + 1 \in 0..MaxAttempts
    BY <1>2, <2>1, LimitsAssumption DEF Mismatch, Open, OtpRow
  <2> QED
    BY <1>2, <2>1, <2>2, RowUpdates, RequestUpdates DEF Mismatch, Idle
<1>3. CASE Match(s)
  <2>1. otp' \in [Codes -> OtpRow]
    BY <1>3, RowUpdates DEF Match
  <2>2. req' \in [Slots -> Request]
    BY <1>3, RequestUpdates DEF Match
  <2>3. uses' \in [Codes -> Nat]
    BY <1>3 DEF Match
  <2>4. /\ req[s].code \in Codes
        /\ req'[s].code = req[s].code
        /\ \A u \in Slots : u # s => req'[u] = req[u]
    BY <1>3 DEF Match, Request
  <2> QED
    BY <1>3, <2>1, <2>2, <2>3, <2>4 DEF Match
<1>4. CASE VerifyRefused(s)
  BY <1>4, RequestUpdates DEF VerifyRefused, Idle
<1>5. CASE LogsIn(s)
  BY <1>5, RequestUpdates DEF LogsIn, Idle
<1>6. CASE GrantsRegistration(s)
  BY <1>6, RequestUpdates DEF GrantsRegistration, Idle
<1> QED
  BY <1>1, <1>2, <1>3, <1>4, <1>5, <1>6 DEF Verify

\* So do registration, time, the purge and a restart (register, AuthCron).
LEMMA OthersTyped ==
  ASSUME CodesTypeOK, (\E s \in Slots : Registration(s)) \/ CreateAdmin \/ Time \/ Crash
  PROVE  CodesTypeOK'
<1> USE CodesAreNumbers DEF CodesTypeOK, At, Goto, Done
<1>1. ASSUME NEW s \in Slots, NEW c \in Codes, RegisterArrives(s, c) PROVE CodesTypeOK'
  BY <1>1 DEF RegisterArrives, Arrive, Request
<1>2. ASSUME NEW s \in Slots, Register(s) PROVE CodesTypeOK'
  <2>1. req[s].code \in Codes
    BY <1>2 DEF Register
  <2> QED
    BY <1>2, <2>1, RowUpdates, RequestUpdates DEF Register, Idle
<1>3. ASSUME NEW s \in Slots, RegisterRefused(s) PROVE CodesTypeOK'
  BY <1>3, RequestUpdates DEF RegisterRefused, Idle
<1>4. CASE CreateAdmin
  BY <1>4 DEF CreateAdmin
<1>5. ASSUME NEW c \in Codes, CodeExpires(c) \/ HourPasses(c) \/ GrantExpires(c) PROVE CodesTypeOK'
  <2>1. CASE CodeExpires(c)
    BY <2>1, RowUpdates DEF CodeExpires
  <2>2. CASE HourPasses(c)
    BY <2>2, RowUpdates DEF HourPasses
  <2>3. CASE GrantExpires(c)
    BY <2>3 DEF GrantExpires
  <2> QED
    BY <1>5, <2>1, <2>2, <2>3
<1>6. ASSUME NEW old \in SUBSET {c \in There : ~otp[c].recent}, Purge(old) PROVE CodesTypeOK'
  <2>1. otp' \in [Codes -> OtpRow]
    BY <1>6, RowUpdates DEF Purge
  <2> QED
    BY <1>6, <2>1 DEF Purge
<1>7. CASE Crash
  <2>1. otp' \in [Codes -> OtpRow]
    BY <1>7, RowUpdates DEF Crash
  <2>2. req' = [u \in Slots |-> Idle]
    BY <1>7 DEF Crash
  <2>3. \A u \in Slots : req'[u] = Idle
    BY <2>2
  <2>4. req' \in [Slots -> Request] /\ \A u \in Slots : req'[u].op = "idle"
    BY <2>2, <2>3, RequestUpdates
  <2>5. UNCHANGED <<grant, account, uses>>
    BY <1>7 DEF Crash
  <2> QED
    BY <2>1, <2>4, <2>5
<1> QED
  BY <1>1, <1>2, <1>3, <1>4, <1>5, <1>6, <1>7 DEF Registration, Time

\* Rows and requests keep their shape and no code takes more wrong guesses than
\* the cap, for any number of guesses in flight (verifyOtp).
THEOREM AttemptsCapped == Spec => []CodesTypeOK
<1>1. CodesTypeOK /\ [Next]_vars => CodesTypeOK'
  <2>1. CodesTypeOK /\ UNCHANGED vars => CodesTypeOK'
    BY DEF CodesTypeOK, vars, At
  <2> QED
    BY <2>1, SendTyped, VerifyTyped, OthersTyped DEF Next
<1> QED
  BY <1>1, InitTyped, PTL DEF Spec

-----------------------------------------------------------------------------
(* A code and what was done with it.                                       *)

\* The transaction of createOtp between its count and its commit.
Drafting(s) == req[s].op = "send" /\ req[s].step \in {"invalidate", "insert"}

\* After it.
Sent(s) == req[s].op = "send" /\ req[s].step \in {"sms", "delete"}

\* The history counts what the row says (otp_requests).
RowsAccounted ==
  \A c \in Codes :
    /\ otp[c].row \in {"NONE", "DRAFT"} => uses[c] = 0 /\ ~otp[c].verified
    /\ otp[c].row = "THERE" => uses[c] = IF otp[c].verified THEN 1 ELSE 0
    /\ uses[c] \in {0, 1}
    /\ grant[c] # "none" => uses[c] = 1

\* A request past the acceptance of a code has its one use; a draft has one
\* transaction that inserts it (verifyOtp, register, createOtp).
RequestsAccounted ==
  \A s \in Slots :
    /\ At(s, "verify", "lookup") => uses[req[s].code] = 1
    /\ At(s, "register", "begin") => grant[req[s].code] # "none"
    /\ Drafting(s) => otp[req[s].code].row = "DRAFT"
    /\ Sent(s) => otp[req[s].code].row \in {"THERE", "GONE"}
    /\ \A t \in Slots : Drafting(s) /\ Drafting(t) /\ req[s].code = req[t].code => s = t

Accounted == CodesTypeOK /\ RowsAccounted /\ RequestsAccounted

\* A step that leaves the rows, the grants and the history alone, and only sends
\* slots back or along without drafting (all handlers).
LEMMA RequestMoves ==
  ASSUME Accounted, UNCHANGED <<otp, uses, grant>>,
         \A u \in Slots :
           \/ req'[u] = req[u]
           \/ Drafting(u) /\ Drafting(u)' /\ req'[u].code = req[u].code
           \/ /\ ~Drafting(u)'
              /\ ~At(u, "verify", "lookup")'
              /\ Sent(u)' => otp[req'[u].code].row \in {"THERE", "GONE"}
              /\ At(u, "register", "begin")' => grant[req'[u].code] # "none"
  PROVE  RowsAccounted' /\ RequestsAccounted'
<1>1. RowsAccounted'
  BY DEF Accounted, RowsAccounted
<1>2. RequestsAccounted'
  BY DEF Accounted, RequestsAccounted, At, Drafting, Sent
<1> QED
  BY <1>1, <1>2

\* The rows and the requests stay accounted in a request for a code (createOtp).
LEMMA SendAccounted ==
  ASSUME Accounted, CodesTypeOK', NEW s \in Slots, Send(s)
  PROVE  RowsAccounted' /\ RequestsAccounted'
<1> USE DEF Accounted
<1>1. CASE SendArrives(s)
  BY <1>1, RequestMoves DEF SendArrives, Arrive, Drafting, Sent, At, CodesTypeOK
<1>2. CASE SendCounts(s)
  <2> PICK c \in Codes :
        /\ otp[c].row = "NONE"
        /\ otp' = [otp EXCEPT ![c].row = "DRAFT"]
        /\ req' = [req EXCEPT ![s].step = "invalidate", ![s].code = c]
    BY <1>2 DEF SendCounts, NextCode
  <2>1. /\ otp'[c].row = "DRAFT" /\ otp'[c].verified = otp[c].verified
        /\ \A d \in Codes : d # c => otp'[d] = otp[d]
        /\ uses' = uses /\ grant' = grant
    BY <1>2 DEF SendCounts, CodesTypeOK, OtpRow
  <2>2. /\ req'[s].op = "send" /\ req'[s].step = "invalidate" /\ req'[s].code = c
        /\ \A u \in Slots : u # s => req'[u] = req[u]
    BY <1>2 DEF SendCounts, CodesTypeOK, Request, At
  <2>3. RowsAccounted'
    BY <2>1 DEF RowsAccounted
  <2>4. \A u \in Slots : Drafting(u) => req[u].code # c
    BY DEF RequestsAccounted
  <2>5. \A u \in Slots : Sent(u) => req[u].code # c /\ req[u].code \in Codes
    BY DEF RequestsAccounted, Sent, At, CodesTypeOK
  <2>6. \A u \in Slots : Drafting(u) => req[u].code \in Codes
    BY DEF Drafting, At, CodesTypeOK
  <2>7. ASSUME NEW u \in Slots, u # s
        PROVE  /\ At(u, "verify", "lookup")' => uses'[req'[u].code] = 1
               /\ At(u, "register", "begin")' => grant'[req'[u].code] # "none"
               /\ Drafting(u)' => otp'[req'[u].code].row = "DRAFT" /\ req'[u].code # c
               /\ Sent(u)' => otp'[req'[u].code].row \in {"THERE", "GONE"}
    <3>1. req'[u] = req[u]
      BY <2>2, <2>7
    <3>2. Drafting(u) \/ Sent(u) => otp'[req[u].code] = otp[req[u].code]
      BY <2>1, <2>4, <2>7, <2>5, <2>6
    <3> QED
      BY <2>1, <2>4, <2>7, <3>1, <3>2 DEF RequestsAccounted, At, Drafting, Sent
  <2>8. \A u, v \in Slots :
          Drafting(u)' /\ Drafting(v)' /\ req'[u].code = req'[v].code => u = v
    <3> SUFFICES ASSUME NEW u \in Slots, NEW v \in Slots,
                        Drafting(u)', Drafting(v)', req'[u].code = req'[v].code, u # v
                 PROVE  FALSE
      OBVIOUS
    <3>1. \A t \in Slots : t # s /\ Drafting(t)' => req'[t].code # c
      BY <2>2, <2>4 DEF Drafting
    <3>2. u # s /\ v # s
      BY <2>2, <3>1
    <3>3. req'[u] = req[u] /\ req'[v] = req[v]
      BY <2>2, <3>2
    <3> QED
      BY <3>3 DEF RequestsAccounted, Drafting
  <2>9. /\ ~At(s, "verify", "lookup")' /\ ~At(s, "register", "begin")' /\ ~Sent(s)'
        /\ otp'[req'[s].code].row = "DRAFT"
    BY <2>1, <2>2 DEF At, Sent
  <2>10. RequestsAccounted'
    BY <2>7, <2>8, <2>9 DEF RequestsAccounted
  <2> QED
    BY <2>3, <2>10
<1>3. CASE SendRefused(s)
  BY <1>3, RequestMoves, RequestUpdates DEF SendRefused, Done, Drafting, Sent, At, CodesTypeOK
<1>4. CASE SendInvalidates(s)
  <2> PICK seen : req' = [req EXCEPT ![s].step = "insert", ![s].seen = seen]
    BY <1>4 DEF SendInvalidates
  <2>1. /\ Drafting(s) /\ Drafting(s)' /\ req'[s].code = req[s].code
        /\ \A u \in Slots : u # s => req'[u] = req[u]
        /\ UNCHANGED <<otp, uses, grant>>
    BY <1>4 DEF SendInvalidates, Drafting, At, CodesTypeOK, Request
  <2> QED
    BY <2>1, RequestMoves
<1>5. CASE SendInserts(s)
  <2> DEFINE c == req[s].code
  <2>1. c \in Codes /\ Drafting(s) /\ otp[c].row = "DRAFT"
    BY <1>5 DEF SendInserts, At, Drafting, CodesTypeOK, RequestsAccounted
  <2>2. /\ req'[s].op = "send" /\ req'[s].step = "sms" /\ req'[s].code = c
        /\ \A u \in Slots : u # s => req'[u] = req[u]
    BY <1>5 DEF SendInserts, At, CodesTypeOK, Request
  <2>3. /\ otp'[c].row = "THERE" /\ otp'[c].verified = otp[c].verified
        /\ \A d \in Codes : d # c => /\ otp'[d].row = otp[d].row
                                    /\ otp'[d].verified = otp[d].verified
        /\ uses' = uses /\ grant' = grant
    BY <1>5, <2>1 DEF SendInserts, CodesTypeOK, OtpRow
  <2>4. RowsAccounted'
    BY <2>1, <2>3 DEF RowsAccounted
  <2>5. \A u \in Slots : u # s /\ Drafting(u) => req[u].code \in Codes /\ req[u].code # c
    BY <2>1 DEF RequestsAccounted, Drafting, At, CodesTypeOK
  <2>6. RequestsAccounted'
    BY <2>2, <2>3, <2>5 DEF RequestsAccounted, At, Drafting, Sent, CodesTypeOK
  <2> QED
    BY <2>4, <2>6
<1>6. CASE SmsSent(s)
  BY <1>6, RequestMoves, RequestUpdates DEF SmsSent, Done, Drafting, Sent, At, CodesTypeOK
<1>7. CASE SmsFails(s)
  <2>1. /\ req'[s].op = "send" /\ req'[s].step = "delete"
        /\ \A u \in Slots : u # s => req'[u] = req[u]
        /\ req'[s].code = req[s].code
        /\ UNCHANGED <<otp, uses, grant>>
    BY <1>7 DEF SmsFails, Goto, At, CodesTypeOK, Request
  <2> QED
    BY <1>7, <2>1, RequestMoves DEF SmsFails, Drafting, Sent, At, RequestsAccounted
<1>8. CASE DeleteOtp(s)
  <2> DEFINE c == req[s].code
  <2>1. c \in Codes /\ Sent(s) /\ otp[c].row \in {"THERE", "GONE"}
    BY <1>8 DEF DeleteOtp, At, Sent, CodesTypeOK, RequestsAccounted
  <2>2. /\ otp'[c].row \in {"THERE", "GONE"}
        /\ otp'[c].row = "THERE" => otp'[c] = otp[c]
        /\ \A d \in Codes : d # c => otp'[d] = otp[d]
        /\ uses' = uses /\ grant' = grant
    BY <1>8, <2>1 DEF DeleteOtp, CodesTypeOK, Deleted, NoOtp
  <2>3. req'[s].op = "idle" /\ \A u \in Slots : u # s => req'[u] = req[u]
    BY <1>8, RequestUpdates DEF DeleteOtp, Done, CodesTypeOK
  <2>4. RowsAccounted'
    BY <2>1, <2>2 DEF RowsAccounted
  <2>5. \A u \in Slots : Drafting(u) => req[u].code \in Codes /\ req[u].code # c
    BY <2>1 DEF RequestsAccounted, Drafting, At, CodesTypeOK
  <2>6. RequestsAccounted'
    BY <2>1, <2>2, <2>3, <2>5 DEF RequestsAccounted, At, Drafting, Sent, CodesTypeOK
  <2> QED
    BY <2>4, <2>6
<1> QED
  BY <1>1, <1>2, <1>3, <1>4, <1>5, <1>6, <1>7, <1>8 DEF Send

\* So they do in a verification: the guard of the acceptance finds no use yet.
LEMMA VerifyAccounted ==
  ASSUME Accounted, CodesTypeOK', NEW s \in Slots, Verify(s)
  PROVE  RowsAccounted' /\ RequestsAccounted'
<1> USE DEF Accounted
<1> DEFINE c == req[s].code
<1>1. CASE VerifyReads(s)
  BY <1>1, RequestMoves DEF VerifyReads, Arrive, Drafting, Sent, At, CodesTypeOK
<1>2. CASE Mismatch(s)
  <2>1. c \in Codes /\ otp[c].row = "THERE"
    BY <1>2 DEF Mismatch, At, CodesTypeOK, Open, There
  <2>2. /\ otp'[c].row = otp[c].row /\ otp'[c].verified = otp[c].verified
        /\ \A d \in Codes : d # c => otp'[d] = otp[d]
        /\ uses' = uses /\ grant' = grant
    BY <1>2, <2>1 DEF Mismatch, CodesTypeOK, OtpRow
  <2>3. req'[s].op = "idle" /\ \A u \in Slots : u # s => req'[u] = req[u]
    BY <1>2, RequestUpdates DEF Mismatch, Done, CodesTypeOK
  <2>4. RowsAccounted'
    BY <2>1, <2>2 DEF RowsAccounted
  <2>5. RequestsAccounted'
    BY <2>1, <2>2, <2>3 DEF RequestsAccounted, At, Drafting, Sent, CodesTypeOK
  <2> QED
    BY <2>4, <2>5
<1>3. CASE Match(s)
  <2>1. c \in Codes /\ otp[c].row = "THERE" /\ ~otp[c].verified /\ uses[c] = 0
    BY <1>3 DEF Match, At, CodesTypeOK, Open, There, RowsAccounted
  <2>2. /\ otp'[c].row = "THERE" /\ otp'[c].verified = TRUE /\ uses'[c] = 1
        /\ \A d \in Codes : d # c => otp'[d] = otp[d] /\ uses'[d] = uses[d]
        /\ grant' = grant
    BY <1>3, <2>1 DEF Match, CodesTypeOK, OtpRow
  <2>3. /\ req'[s].op = "verify" /\ req'[s].step = "lookup" /\ req'[s].code = c
        /\ \A u \in Slots : u # s => req'[u] = req[u]
    BY <1>3 DEF Match, Goto, At, CodesTypeOK, Request
  <2>4. RowsAccounted'
    BY <2>1, <2>2 DEF RowsAccounted
  <2>5. RequestsAccounted'
    BY <2>1, <2>2, <2>3 DEF RequestsAccounted, At, Drafting, Sent, CodesTypeOK
  <2> QED
    BY <2>4, <2>5
<1>4. CASE VerifyRefused(s)
  BY <1>4, RequestMoves, RequestUpdates DEF VerifyRefused, Done, Drafting, Sent, At, CodesTypeOK
<1>5. CASE LogsIn(s)
  BY <1>5, RequestMoves, RequestUpdates DEF LogsIn, Done, Drafting, Sent, At, CodesTypeOK
<1>6. CASE GrantsRegistration(s)
  <2>1. c \in Codes /\ uses[c] = 1
    BY <1>6 DEF GrantsRegistration, At, CodesTypeOK, RequestsAccounted
  <2>2. /\ grant'[c] = "valid" /\ \A d \in Codes : d # c => grant'[d] = grant[d]
        /\ uses' = uses /\ otp' = otp
    BY <1>6, <2>1 DEF GrantsRegistration, CodesTypeOK
  <2>3. req'[s].op = "idle" /\ \A u \in Slots : u # s => req'[u] = req[u]
    <3>1. req' = [req EXCEPT ![s] = Idle] /\ req \in [Slots -> Request]
      BY <1>6 DEF GrantsRegistration, Done, CodesTypeOK
    <3> QED
      BY <3>1, RequestUpdates
  <2>4. RowsAccounted'
    BY <2>1, <2>2 DEF RowsAccounted
  <2>5. RequestsAccounted'
    BY <2>1, <2>2, <2>3 DEF RequestsAccounted, At, Drafting, Sent, CodesTypeOK
  <2> QED
    BY <2>4, <2>5
<1> QED
  BY <1>1, <1>2, <1>3, <1>4, <1>5, <1>6 DEF Verify

\* And in a registration, with time, a purge or a restart (register, AuthCron).
LEMMA OthersAccounted ==
  ASSUME Accounted, CodesTypeOK',
         (\E s \in Slots : Registration(s)) \/ CreateAdmin \/ Time \/ Crash
  PROVE  RowsAccounted' /\ RequestsAccounted'
<1> USE DEF Accounted
<1>1. ASSUME NEW s \in Slots, NEW c \in Codes, RegisterArrives(s, c)
      PROVE  RowsAccounted' /\ RequestsAccounted'
  BY <1>1, RequestMoves DEF RegisterArrives, Arrive, Drafting, Sent, At, CodesTypeOK
<1>2. ASSUME NEW s \in Slots, Register(s)
      PROVE  RowsAccounted' /\ RequestsAccounted'
  <2> DEFINE c == req[s].code
  <2>1. c \in Codes
    BY <1>2 DEF Register, At, CodesTypeOK
  <2>2. /\ \A d \in Codes : otp'[d].row = otp[d].row /\ otp'[d].verified = otp[d].verified
        /\ uses' = uses /\ grant' = grant
    BY <1>2, <2>1 DEF Register, CodesTypeOK, OtpRow
  <2>3. req'[s].op = "idle" /\ \A u \in Slots : u # s => req'[u] = req[u]
    BY <1>2, RequestUpdates DEF Register, Done, CodesTypeOK
  <2>4. RowsAccounted'
    BY <2>2 DEF RowsAccounted
  <2>5. \A u \in Slots : u # s /\ req[u].op # "idle" /\ ~At(u, "send", "begin") => req[u].code \in Codes
    BY DEF CodesTypeOK
  <2>6. ~Drafting(s)' /\ ~Sent(s)' /\ ~At(s, "verify", "lookup")' /\ ~At(s, "register", "begin")'
    BY <2>3 DEF Drafting, Sent, At
  <2>7. \A u \in Slots : u # s =>
          /\ Drafting(u)' = Drafting(u) /\ Sent(u)' = Sent(u)
          /\ At(u, "verify", "lookup")' = At(u, "verify", "lookup")
          /\ At(u, "register", "begin")' = At(u, "register", "begin")
          /\ req'[u].code = req[u].code
    BY <2>3 DEF Drafting, Sent, At
  <2>8. \A u \in Slots : u # s /\ (Drafting(u) \/ Sent(u)) => otp'[req[u].code].row = otp[req[u].code].row
    BY <2>2, <2>5 DEF Drafting, Sent, At
  <2>9. RequestsAccounted'
    BY <2>2, <2>6, <2>7, <2>8 DEF RequestsAccounted
  <2> QED
    BY <2>4, <2>9
<1>3. ASSUME NEW s \in Slots, RegisterRefused(s)
      PROVE  RowsAccounted' /\ RequestsAccounted'
  BY <1>3, RequestMoves, RequestUpdates DEF RegisterRefused, Done, Drafting, Sent, At, CodesTypeOK
<1>4. CASE CreateAdmin
  BY <1>4, RequestMoves DEF CreateAdmin
<1>5. ASSUME NEW c \in Codes, CodeExpires(c) \/ HourPasses(c)
      PROVE  RowsAccounted' /\ RequestsAccounted'
  <2>1. /\ \A d \in Codes : otp'[d].row = otp[d].row /\ otp'[d].verified = otp[d].verified
        /\ uses' = uses /\ grant' = grant /\ req' = req
    BY <1>5 DEF CodeExpires, HourPasses, CodesTypeOK, OtpRow
  <2>2. RowsAccounted'
    BY <2>1 DEF RowsAccounted
  <2>3. RequestsAccounted'
    BY <2>1 DEF RequestsAccounted, At, Drafting, Sent, CodesTypeOK
  <2> QED
    BY <2>2, <2>3
<1>6. ASSUME NEW c \in Codes, GrantExpires(c)
      PROVE  RowsAccounted' /\ RequestsAccounted'
  <2>1. /\ \A d \in Codes : grant'[d] # "none" <=> grant[d] # "none"
        /\ uses' = uses /\ otp' = otp /\ req' = req
    BY <1>6 DEF GrantExpires, CodesTypeOK
  <2>2. RowsAccounted'
    BY <2>1 DEF RowsAccounted
  <2>3. RequestsAccounted'
    BY <2>1 DEF RequestsAccounted, At, Drafting, Sent, CodesTypeOK
  <2> QED
    BY <2>2, <2>3
<1>7. ASSUME NEW old \in SUBSET {c \in There : ~otp[c].recent}, Purge(old)
      PROVE  RowsAccounted' /\ RequestsAccounted'
  <2>1. /\ \A d \in Codes :
             \/ otp'[d] = otp[d]
             \/ otp[d].row = "THERE" /\ otp'[d].row = "GONE"
        /\ uses' = uses /\ grant' = grant /\ req' = req
    <3>1. \A d \in old : d \in Codes /\ otp[d].row = "THERE"
      BY DEF There
    <3>2. Deleted.row = "GONE"
      BY DEF Deleted, NoOtp
    <3>3. /\ otp' = [d \in Codes |-> IF d \in old THEN Deleted ELSE otp[d]]
          /\ UNCHANGED <<grant, account, req, uses>>
      BY <1>7 DEF Purge
    <3> HIDE DEF There
    <3> QED
      BY <3>1, <3>2, <3>3
  <2>2. RowsAccounted'
    BY <2>1 DEF RowsAccounted
  <2>3. RequestsAccounted'
    BY <2>1 DEF RequestsAccounted, At, Drafting, Sent, CodesTypeOK
  <2> QED
    BY <2>2, <2>3
<1>8. CASE Crash
  <2>1. /\ \A d \in Codes : otp'[d] = otp[d] \/ otp'[d].row = "GONE"
        /\ uses' = uses /\ grant' = grant
    BY <1>8 DEF Crash, CodesTypeOK, Deleted, NoOtp
  <2>2. \A u \in Slots : req'[u].op = "idle"
    BY <1>8, RequestUpdates DEF Crash
  <2>3. RowsAccounted'
    BY <2>1 DEF RowsAccounted
  <2>4. RequestsAccounted'
    BY <2>2 DEF RequestsAccounted, At, Drafting, Sent
  <2> QED
    BY <2>3, <2>4
<1> QED
  BY <1>1, <1>2, <1>3, <1>4, <1>5, <1>6, <1>7, <1>8 DEF Registration, Time

\* What was done with a code and what is under way agree with its row, for any
\* number of requests in flight (OtpService, register).
LEMMA AccountedAlways == Spec => []Accounted
<1>1. Init => RowsAccounted /\ RequestsAccounted
  <2> SUFFICES ASSUME Init PROVE RowsAccounted /\ RequestsAccounted
    OBVIOUS
  <2>1. \A c \in Codes : /\ otp[c].row = "NONE" /\ ~otp[c].verified
                         /\ uses[c] = 0 /\ grant[c] = "none"
    BY DEF Init, NoOtp
  <2>2. \A s \in Slots : req[s].op = "idle"
    BY RequestUpdates DEF Init
  <2>3. RowsAccounted
    BY <2>1 DEF RowsAccounted
  <2>4. RequestsAccounted
    BY <2>2 DEF RequestsAccounted, At, Drafting, Sent
  <2> QED
    BY <2>3, <2>4
<1>2. ASSUME Accounted, CodesTypeOK', [Next]_vars PROVE RowsAccounted' /\ RequestsAccounted'
  <2>1. CASE UNCHANGED vars
    BY <1>2, <2>1, RequestMoves DEF vars
  <2> QED
    BY <1>2, <2>1, SendAccounted, VerifyAccounted, OthersAccounted DEF Next
<1> QED
  BY <1>1, <1>2, AttemptsCapped, PTL DEF Spec, Accounted

\* A code is accepted once, for any number of requests that read it (verifyOtp).
THEOREM CodeUsedOnce == Spec => []AcceptedOnce
<1>1. Accounted => AcceptedOnce
  BY DEF Accounted, RowsAccounted, AcceptedOnce
<1> QED
  BY <1>1, AccountedAlways, PTL

-----------------------------------------------------------------------------
(* Locked codes and accounts.                                              *)

\* A code becomes accepted only in Match, which sees fewer attempts than the cap.
LEMMA LockedStep ==
  ASSUME CodesTypeOK, [Next]_vars, NEW c \in Codes,
         otp[c].attempts = MaxAttempts, ~otp[c].verified
  PROVE  ~otp'[c].verified
<1> DEFINE Goal == ~otp'[c].verified
<1>1. ASSUME NEW s \in Slots, Match(s) PROVE Goal
  <2>1. req[s].code # c
    BY <1>1, LimitsAssumption DEF Match, Open, OtpRow, CodesTypeOK
  <2> QED
    BY <1>1, <2>1 DEF Match, CodesTypeOK
<1>2. ASSUME NEW s \in Slots, Mismatch(s) \/ SendCounts(s) \/ Register(s) PROVE Goal
  <2>1. \A d \in Codes : \A x : [otp[d] EXCEPT !.attempts = x].verified = otp[d].verified
    BY DEF CodesTypeOK, OtpRow
  <2>2. CASE Mismatch(s)
    BY <2>1, <2>2 DEF Mismatch, CodesTypeOK
  <2>3. CASE SendCounts(s)
    BY <2>3 DEF SendCounts, CodesTypeOK, OtpRow
  <2>4. CASE Register(s)
    BY <2>4 DEF Register, CodesTypeOK, OtpRow
  <2> QED
    BY <1>2, <2>2, <2>3, <2>4
<1>3. ASSUME NEW s \in Slots, SendInserts(s) PROVE Goal
  BY <1>3 DEF SendInserts, CodesTypeOK, OtpRow
<1>4. ~Deleted.verified
  BY DEF Deleted, NoOtp
<1>5. ASSUME NEW s \in Slots, DeleteOtp(s) PROVE Goal
  BY <1>4, <1>5 DEF DeleteOtp, CodesTypeOK
<1>6. ASSUME NEW d \in Codes, CodeExpires(d) \/ HourPasses(d) PROVE Goal
  <2>1. \A r \in OtpRow : /\ [r EXCEPT !.expired = TRUE].verified = r.verified
                          /\ [r EXCEPT !.recent = FALSE].verified = r.verified
    BY DEF OtpRow
  <2>2. otp[c] \in OtpRow /\ otp[d] \in OtpRow
    BY DEF CodesTypeOK
  <2>3. \/ otp' = [otp EXCEPT ![d] = [otp[d] EXCEPT !.expired = TRUE]]
        \/ otp' = [otp EXCEPT ![d] = [otp[d] EXCEPT !.recent = FALSE]]
    BY <1>6 DEF CodeExpires, HourPasses
  <2> QED
    BY <2>1, <2>2, <2>3 DEF CodesTypeOK
<1>7. ASSUME NEW old, Purge(old) PROVE Goal
  BY <1>4, <1>7 DEF Purge
<1>8. CASE Crash
  BY <1>4, <1>8 DEF Crash
<1>9. otp' = otp => Goal
  OBVIOUS
<1>10. ASSUME NEW s \in Slots, Send(s) PROVE Goal
  BY <1>2, <1>3, <1>5, <1>9, <1>10
     DEF Send, SendArrives, SendRefused, SendInvalidates, SmsSent, SmsFails
<1>11. ASSUME NEW s \in Slots, Verify(s) PROVE Goal
  BY <1>1, <1>2, <1>9, <1>11
     DEF Verify, VerifyReads, VerifyRefused, LogsIn, GrantsRegistration
<1>12. ASSUME NEW s \in Slots, Registration(s) PROVE Goal
  BY <1>2, <1>9, <1>12 DEF Registration, RegisterArrives, RegisterRefused
<1>13. CASE Time
  <2>1. ASSUME NEW d \in Codes, GrantExpires(d) PROVE Goal
    BY <1>9, <2>1 DEF GrantExpires
  <2> QED
    BY <1>6, <1>7, <1>13, <2>1 DEF Time
<1>14. CreateAdmin \/ UNCHANGED vars => Goal
  BY <1>9 DEF CreateAdmin, vars
<1> QED
  BY <1>8, <1>10, <1>11, <1>12, <1>13, <1>14 DEF Next

\* A locked code is never accepted, whatever had read it before (verifyOtp).
THEOREM LockedCodesStayLocked == Spec => LockedForGood
<1>1. CodesTypeOK /\ [Next]_vars =>
        [\A c \in Codes :
           otp[c].attempts = MaxAttempts /\ ~otp[c].verified => ~otp'[c].verified]_vars
  BY LockedStep
<1> QED
  BY <1>1, AttemptsCapped, PTL DEF Spec, LockedForGood
-----------------------------------------------------------------------------
(* The account, and the codes of an hour.                                  *)

\* The codes whose transactions have counted and not yet committed.
Coming == {c \in Codes : \E s \in Slots : Drafting(s) /\ req[s].code = c}

\* What any step may do to a row: let it grow older, delete it, draft it or commit it.
LEMMA RowsAge ==
  ASSUME Accounted, [Next]_vars, NEW c \in Codes
  PROVE  \/ /\ otp'[c].row = otp[c].row
            /\ otp[c].expired => otp'[c].expired
            /\ otp'[c].recent => otp[c].recent
         \/ otp'[c].row = "GONE"
         \/ otp[c].row = "NONE" /\ otp'[c].row = "DRAFT"
         \/ c \in Coming /\ otp'[c].row = "THERE" /\ otp[c].row = "DRAFT"
<1> DEFINE Goal ==
      \/ /\ otp'[c].row = otp[c].row
         /\ otp[c].expired => otp'[c].expired
         /\ otp'[c].recent => otp[c].recent
      \/ otp'[c].row = "GONE"
      \/ otp[c].row = "NONE" /\ otp'[c].row = "DRAFT"
      \/ c \in Coming /\ otp'[c].row = "THERE" /\ otp[c].row = "DRAFT"
<1>0. otp \in [Codes -> OtpRow]
  BY DEF Accounted, CodesTypeOK
<1>1. \A r \in OtpRow :
        /\ [r EXCEPT !.verified = TRUE].row = r.row /\ [r EXCEPT !.verified = TRUE].expired = r.expired
        /\ [r EXCEPT !.verified = TRUE].recent = r.recent
        /\ [r EXCEPT !.expired = TRUE].row = r.row /\ [r EXCEPT !.expired = TRUE].expired
        /\ [r EXCEPT !.expired = TRUE].recent = r.recent
        /\ [r EXCEPT !.recent = FALSE].row = r.row /\ [r EXCEPT !.recent = FALSE].expired = r.expired
        /\ ~[r EXCEPT !.recent = FALSE].recent
  BY DEF OtpRow
<1>2. \A r \in OtpRow, n \in Nat :
        /\ [r EXCEPT !.attempts = n].row = r.row /\ [r EXCEPT !.attempts = n].expired = r.expired
        /\ [r EXCEPT !.attempts = n].recent = r.recent
  BY DEF OtpRow
<1>3. \A r \in OtpRow : /\ [r EXCEPT !.row = "DRAFT"].row = "DRAFT"
                        /\ [r EXCEPT !.row = "THERE"].row = "THERE"
  BY DEF OtpRow
<1>4. Deleted.row = "GONE"
  BY DEF Deleted, NoOtp
<1>5. CASE otp' = otp
  BY <1>5
<1>6. ASSUME NEW s \in Slots, SendCounts(s) PROVE Goal
  BY <1>0, <1>3, <1>6 DEF SendCounts, NextCode
<1>7. ASSUME NEW s \in Slots, SendInserts(s) PROVE Goal
  <2>1. Drafting(s) /\ otp[req[s].code].row = "DRAFT"
    BY <1>7 DEF SendInserts, At, Drafting, Accounted, RequestsAccounted
  <2>2. CASE c = req[s].code
    BY <1>0, <1>3, <1>7, <2>1, <2>2 DEF SendInserts, Coming
  <2>3. CASE c # req[s].code
    BY <1>0, <1>1, <1>7, <2>3 DEF SendInserts
  <2> QED
    BY <2>2, <2>3
<1>8. ASSUME NEW s \in Slots, DeleteOtp(s) PROVE Goal
  BY <1>0, <1>4, <1>8 DEF DeleteOtp
<1>9. ASSUME NEW s \in Slots, Mismatch(s) PROVE Goal
  <2>1. \A r \in OtpRow : r.attempts + 1 \in Nat
    BY DEF OtpRow
  <2>2. otp' = [otp EXCEPT ![req[s].code] = [otp[req[s].code] EXCEPT !.attempts = otp[req[s].code].attempts + 1]]
    BY <1>9 DEF Mismatch
  <2> QED
    BY <1>0, <1>2, <2>1, <2>2
<1>10. ASSUME NEW s \in Slots, Match(s) \/ Register(s) PROVE Goal
  <2>1. \/ otp' = [otp EXCEPT ![req[s].code] = [otp[req[s].code] EXCEPT !.verified = TRUE]]
        \/ otp' = [otp EXCEPT ![req[s].code] = [otp[req[s].code] EXCEPT !.expired = TRUE]]
    BY <1>10 DEF Match, Register
  <2>2. \/ otp'[c] = otp[c]
        \/ otp'[c] = [otp[c] EXCEPT !.verified = TRUE]
        \/ otp'[c] = [otp[c] EXCEPT !.expired = TRUE]
    BY <1>0, <2>1
  <2>3. otp[c] \in OtpRow
    BY <1>0
  <2>4. /\ otp'[c].row = otp[c].row
        /\ otp[c].expired => otp'[c].expired
        /\ otp'[c].recent => otp[c].recent
    BY <2>2, <2>3 DEF OtpRow
  <2> QED
    BY <2>4
<1>11. ASSUME NEW d \in Codes, CodeExpires(d) \/ HourPasses(d) PROVE Goal
  <2>1. \/ otp' = [otp EXCEPT ![d] = [otp[d] EXCEPT !.expired = TRUE]]
        \/ otp' = [otp EXCEPT ![d] = [otp[d] EXCEPT !.recent = FALSE]]
    BY <1>11 DEF CodeExpires, HourPasses
  <2>2. \/ otp'[c] = otp[c]
        \/ otp'[c] = [otp[c] EXCEPT !.expired = TRUE]
        \/ otp'[c] = [otp[c] EXCEPT !.recent = FALSE]
    BY <1>0, <2>1
  <2>3. otp[c] \in OtpRow
    BY <1>0
  <2>4. /\ otp'[c].row = otp[c].row
        /\ otp[c].expired => otp'[c].expired
        /\ otp'[c].recent => otp[c].recent
    BY <2>2, <2>3 DEF OtpRow
  <2> QED
    BY <2>4
<1>12. ASSUME NEW old, Purge(old) PROVE Goal
  BY <1>4, <1>12 DEF Purge
<1>13. CASE Crash
  BY <1>4, <1>13 DEF Crash
<1>14. ASSUME NEW s \in Slots, Send(s) PROVE Goal
  BY <1>5, <1>6, <1>7, <1>8, <1>14 DEF Send, SendArrives, SendRefused, SendInvalidates, SmsSent, SmsFails
<1>15. ASSUME NEW s \in Slots, Verify(s) \/ Registration(s) PROVE Goal
  BY <1>5, <1>9, <1>10, <1>15
     DEF Verify, VerifyReads, VerifyRefused, LogsIn, GrantsRegistration, Registration, RegisterArrives, RegisterRefused
<1>16. CASE Time
  BY <1>5, <1>11, <1>12, <1>16 DEF Time, GrantExpires
<1>17. CASE CreateAdmin \/ UNCHANGED vars
  BY <1>5, <1>17 DEF CreateAdmin, vars
<1> QED
  BY <1>13, <1>14, <1>15, <1>16, <1>17 DEF Next

\* A code that no registration can use any more (consumeForRegistration).
Spent(c) == otp[c].row = "GONE" \/ (otp[c].row = "THERE" /\ otp[c].expired)

Rested ==
  account.exists /\ account.code # 0 => grant[account.code] # "none" /\ Spent(account.code)

LEMMA SpentStays ==
  ASSUME Accounted, [Next]_vars, NEW c \in Codes, Spent(c)
  PROVE  Spent(c)'
<1>1. c \notin Coming
  BY DEF Spent, Coming, Accounted, RequestsAccounted
<1> QED
  BY <1>1, RowsAge DEF Spent

LEMMA GrantStays ==
  ASSUME CodesTypeOK, [Next]_vars, NEW c \in Codes, grant[c] # "none"
  PROVE  grant'[c] # "none"
<1>1. ASSUME NEW s \in Slots, GrantsRegistration(s) PROVE grant'[c] # "none"
  BY <1>1 DEF GrantsRegistration, CodesTypeOK
<1>2. ASSUME NEW d \in Codes, GrantExpires(d) PROVE grant'[c] # "none"
  BY <1>2 DEF GrantExpires, CodesTypeOK
<1>3. ASSUME NEW s \in Slots, Send(s) PROVE grant' = grant
  BY <1>3 DEF Send, SendArrives, SendCounts, SendRefused, SendInvalidates, SendInserts, SmsSent, SmsFails, DeleteOtp
<1>4. ASSUME NEW s \in Slots, Verify(s) PROVE grant' = grant \/ GrantsRegistration(s)
  BY <1>4 DEF Verify, VerifyReads, Mismatch, Match, VerifyRefused, LogsIn
<1>5. ASSUME NEW s \in Slots, Registration(s) PROVE grant' = grant
  BY <1>5 DEF Registration, RegisterArrives, Register, RegisterRefused
<1>6. CASE Time
  BY <1>2, <1>6 DEF Time, CodeExpires, HourPasses, Purge
<1>7. CreateAdmin \/ Crash \/ UNCHANGED vars => grant' = grant
  BY DEF CreateAdmin, Crash, vars
<1> QED
  BY <1>1, <1>3, <1>4, <1>5, <1>6, <1>7 DEF Next

\* Only a registration and createAdmin make an account, and only where there is none.
LEMMA AccountMade ==
  ASSUME [Next]_vars
  PROVE  \/ account' = account
         \/ ~account.exists /\ CreateAdmin
         \/ ~account.exists /\ \E s \in Slots : Register(s)
<1>1. ASSUME NEW s \in Slots, Send(s) PROVE account' = account
  BY <1>1 DEF Send, SendArrives, SendCounts, SendRefused, SendInvalidates, SendInserts, SmsSent, SmsFails, DeleteOtp
<1>2. ASSUME NEW s \in Slots, Verify(s) PROVE account' = account
  BY <1>2 DEF Verify, VerifyReads, Mismatch, Match, VerifyRefused, LogsIn, GrantsRegistration
<1>3. ASSUME NEW s \in Slots, Registration(s) PROVE account' = account \/ (~account.exists /\ Register(s))
  BY <1>3 DEF Registration, RegisterArrives, Register, RegisterRefused
<1>4. Time \/ Crash \/ UNCHANGED vars => account' = account
  BY DEF Time, CodeExpires, HourPasses, GrantExpires, Purge, Crash, vars
<1>5. CreateAdmin => ~account.exists
  BY DEF CreateAdmin
<1> QED
  BY <1>1, <1>2, <1>3, <1>4, <1>5 DEF Next

\* A registered account rests on a code that was accepted and is used up, whatever was
\* in flight (register).
THEOREM AccountsRestOnCodes == Spec => []RegistrationRestsOnCode
<1>1. Init => Rested
  BY DEF Init, Rested
<1>2. Accounted /\ Rested /\ [Next]_vars => Rested'
  <2> DEFINE Used(c) == \/ otp'[c].row = "GONE"
                        \/ otp'[c].row = "THERE" /\ otp'[c].expired
  <2> SUFFICES ASSUME Accounted, Rested, [Next]_vars, account'.exists, account'.code # 0
               PROVE  grant'[account'.code] # "none" /\ Used(account'.code)
    BY DEF Rested, Spent
  <2> USE DEF Accounted
  <2>1. CASE account' = account
    <3>1. account.code \in Codes
      BY <2>1 DEF CodesTypeOK, Codes
    <3>2. grant[account.code] # "none" /\ Spent(account.code)
      BY <2>1 DEF Rested
    <3>3. grant'[account.code] # "none"
      BY <3>1, <3>2, GrantStays
    <3>4. Used(account.code)
      BY <3>1, <3>2, SpentStays DEF Spent
    <3> QED
      BY <2>1, <3>3, <3>4
  <2>2. CASE CreateAdmin
    BY <2>2 DEF CreateAdmin
  <2>3. ASSUME NEW s \in Slots, Register(s) PROVE grant'[account'.code] # "none" /\ Used(account'.code)
    <3> DEFINE c == req[s].code
    <3>1. c \in Codes /\ otp[c].row = "THERE" /\ account'.code = c /\ grant' = grant
          /\ otp' = [otp EXCEPT ![c] = [otp[c] EXCEPT !.expired = TRUE]]
      BY <2>3 DEF Register, Consumable, There
    <3>2. grant[c] # "none"
      BY <2>3 DEF Register, RequestsAccounted
    <3>3. otp'[c] = [otp[c] EXCEPT !.expired = TRUE] /\ otp[c] \in OtpRow
      BY <3>1 DEF CodesTypeOK
    <3>4. otp'[c].row = "THERE" /\ otp'[c].expired
      BY <3>1, <3>3 DEF OtpRow
    <3> QED
      BY <3>1, <3>2, <3>4
  <2> QED
    BY <2>1, <2>2, <2>3, AccountMade
<1>3. Accounted /\ Rested => RegistrationRestsOnCode
  <2> SUFFICES ASSUME Accounted, Rested, account.exists, account.code # 0
               PROVE  /\ uses[account.code] = 1 /\ grant[account.code] # "none"
                      /\ ~Consumable(account.code)
    BY DEF RegistrationRestsOnCode
  <2>1. account.code \in Codes
    BY DEF Accounted, CodesTypeOK, Codes
  <2> QED
    BY <2>1 DEF Accounted, RowsAccounted, Rested, Spent, Consumable, There
<1> QED
  BY <1>1, <1>2, <1>3, AccountedAlways, PTL DEF Spec

\* An account is never taken over (register).
THEOREM AccountsKeepOrigin == Spec => AccountKeepsOrigin
<1>1. [Next]_vars => [account.exists => account' = account]_vars
  BY AccountMade DEF vars
<1> QED
  BY <1>1, PTL DEF Spec, AccountKeepsOrigin

\* What counts towards the hour, and what is on its way there.
Recent == {c \in There : otp[c].recent}
FewRecent == Cardinality(Recent \cup Coming) <= HourlyLimit + Cardinality(Slots) - 1

LEMMA FewCodes ==
  ASSUME NEW r
  PROVE  /\ IsFiniteSet({r[s].code : s \in Slots})
         /\ Cardinality({r[s].code : s \in Slots}) <= Cardinality(Slots)
<1> DEFINE f == [s \in Slots |-> r[s].code]
<1>1. f \in Surjection(Slots, {r[s].code : s \in Slots})
  BY DEF Surjection
<1> QED
  BY <1>1, SlotsAssumption, FS_Surjection

\* Only the count starts a transaction that will insert (createOtp).
LEMMA DraftsGo ==
  ASSUME CodesTypeOK, [Next]_vars, \A s \in Slots : ~SendCounts(s), NEW u \in Slots, Drafting(u)'
  PROVE  Drafting(u) /\ req'[u].code = req[u].code
<1> DEFINE Goal == Drafting(u) /\ req'[u].code = req[u].code
<1>0. req \in [Slots -> Request] /\ req[u] \in Request
  BY DEF CodesTypeOK
<1>1. CASE req'[u] = req[u]
  BY <1>1 DEF Drafting
<1>2. CASE req'[u].op # "send" \/ req'[u].step \notin {"invalidate", "insert"}
  BY <1>2 DEF Drafting
<1>3. Idle.op # "send"
  BY RequestUpdates
<1>4. ASSUME NEW s \in Slots, SendInvalidates(s) PROVE Goal
  <2>1. PICK seen : req' = [req EXCEPT ![s] = [req[s] EXCEPT !.step = "insert", !.seen = seen]]
    BY <1>4 DEF SendInvalidates
  <2>2. u = s => Drafting(u) /\ req'[u].code = req[u].code
    BY <1>0, <1>4, <2>1 DEF SendInvalidates, At, Drafting, Request
  <2> QED
    BY <1>0, <1>1, <2>1, <2>2
<1>5. ASSUME NEW s \in Slots, SendArrives(s) \/ SendRefused(s) \/ SmsSent(s) \/ DeleteOtp(s) PROVE Goal
  BY <1>0, <1>1, <1>2, <1>3, <1>5 DEF SendArrives, SendRefused, SmsSent, DeleteOtp, Arrive, Done
<1>6. ASSUME NEW s \in Slots, SendInserts(s) PROVE Goal
  <2>1. req' = [req EXCEPT ![s] = [req[s] EXCEPT !.step = "sms", !.seen = {}]]
    BY <1>6 DEF SendInserts
  <2>2. u = s => req'[u].step = "sms"
    BY <1>0, <2>1 DEF Request
  <2> QED
    BY <1>0, <1>1, <1>2, <2>1, <2>2
<1>7. ASSUME NEW s \in Slots, SmsFails(s) \/ Match(s) PROVE Goal
  <2>1. PICK st \in {"delete", "lookup"} : req' = [req EXCEPT ![s] = [req[s] EXCEPT !.step = st]]
    BY <1>7 DEF SmsFails, Match, Goto
  <2>2. u = s => req'[u].step = st
    BY <1>0, <2>1 DEF Request
  <2> QED
    BY <1>0, <1>1, <1>2, <2>1, <2>2
<1>8. ASSUME NEW s \in Slots, Send(s) PROVE Goal
  BY <1>4, <1>5, <1>6, <1>7, <1>8 DEF Send
<1>9. ASSUME NEW s \in Slots, Verify(s) PROVE Goal
  <2>1. CASE VerifyReads(s)
    BY <1>0, <1>1, <1>2, <2>1 DEF VerifyReads, Arrive
  <2>2. CASE Mismatch(s) \/ VerifyRefused(s) \/ LogsIn(s) \/ GrantsRegistration(s)
    BY <1>0, <1>1, <1>2, <1>3, <2>2 DEF Mismatch, VerifyRefused, LogsIn, GrantsRegistration, Done
  <2> QED
    BY <1>7, <1>9, <2>1, <2>2 DEF Verify
<1>10. ASSUME NEW s \in Slots, Registration(s) PROVE Goal
  <2>1. ASSUME NEW c \in Codes, RegisterArrives(s, c) PROVE Goal
    BY <1>0, <1>1, <1>2, <2>1 DEF RegisterArrives, Arrive
  <2>2. CASE Register(s) \/ RegisterRefused(s)
    BY <1>0, <1>1, <1>2, <1>3, <2>2 DEF Register, RegisterRefused, Done
  <2> QED
    BY <1>10, <2>1, <2>2 DEF Registration
<1>11. CASE Crash
  BY <1>2, <1>3, <1>11 DEF Crash
<1>12. Time \/ CreateAdmin \/ UNCHANGED vars => req' = req
  BY DEF Time, CodeExpires, HourPasses, GrantExpires, Purge, CreateAdmin, vars
<1> QED
  BY <1>1, <1>8, <1>9, <1>10, <1>11, <1>12 DEF Next

\* The limit of the hour is passed by no more than the other requests in flight
\* (createOtp).
THEOREM HourNearlyKept == Spec => []HourlyOvershoot
<1>0. /\ IsFiniteSet(Codes) /\ IsFiniteSet(Slots)
      /\ Cardinality(Slots) \in Nat /\ Cardinality(Slots) >= 1 /\ HourlyLimit \in Nat \ {0}
  <2>1. IsFiniteSet(Codes)
    BY LimitsAssumption, FS_Interval DEF Codes
  <2>2. Cardinality(Slots) \in Nat /\ Cardinality(Slots) # 0
    BY SlotsAssumption, FS_EmptySet, FS_CardinalityType
  <2> QED
    BY <2>1, <2>2, SlotsAssumption, LimitsAssumption
<1>1. ASSUME NEW S \in SUBSET Codes, NEW T \in SUBSET S
      PROVE  /\ Cardinality(T) <= Cardinality(S)
             /\ Cardinality(T) \in Nat /\ Cardinality(S) \in Nat
  <2>1. IsFiniteSet(S) /\ IsFiniteSet(T)
    BY <1>0, FS_Subset
  <2> QED
    BY <2>1, FS_Subset, FS_CardinalityType
<1>2. Recent \cup Coming \in SUBSET Codes /\ (Recent \cup Coming)' \in SUBSET Codes
  BY DEF Recent, Coming, There
<1>3. Init => FewRecent
  <2> SUFFICES ASSUME Init PROVE FewRecent
    OBVIOUS
  <2>1. Recent \cup Coming = {}
    BY RequestUpdates DEF Init, Recent, Coming, There, NoOtp, Drafting
  <2>2. Cardinality(Recent \cup Coming) = 0
    BY <2>1, FS_EmptySet
  <2> QED
    BY <1>0, <2>2 DEF FewRecent
<1>4. Accounted /\ FewRecent /\ [Next]_vars => FewRecent'
  <2> SUFFICES ASSUME Accounted, FewRecent, [Next]_vars PROVE FewRecent'
    OBVIOUS
  <2>0. CodesTypeOK
    BY DEF Accounted
  <2>1. CASE \A s \in Slots : ~SendCounts(s)
    <3>1. Recent' \subseteq Recent \cup Coming
      BY RowsAge DEF Recent, There
    <3>2. Coming' \subseteq Coming
      BY <2>0, <2>1, DraftsGo DEF Coming
    <3>3. (Recent \cup Coming)' \in SUBSET (Recent \cup Coming)
      BY <3>1, <3>2
    <3>4. /\ Cardinality((Recent \cup Coming)') <= Cardinality(Recent \cup Coming)
          /\ Cardinality((Recent \cup Coming)') \in Nat /\ Cardinality(Recent \cup Coming) \in Nat
      BY <1>1, <1>2, <3>3
    <3> QED
      BY <1>0, <3>4 DEF FewRecent
  <2>2. ASSUME NEW s \in Slots, SendCounts(s) PROVE FewRecent'
    <3> DEFINE drafted == {req'[u].code : u \in Slots}
    <3>1. Cardinality(Recent) <= HourlyLimit - 1 /\ Cardinality(Recent) \in Nat /\ IsFiniteSet(Recent)
      <4>1. Recent = Counted /\ Recent \in SUBSET Codes
        BY DEF Recent, Counted, There
      <4>2. IsFiniteSet(Recent)
        BY <1>0, <4>1, FS_Subset
      <4>3. Cardinality(Recent) < HourlyLimit
        BY <2>2, <4>1 DEF SendCounts
      <4>4. Cardinality(Recent) \in Nat
        BY <4>2, FS_CardinalityType
      <4> QED
        BY <1>0, <4>2, <4>3, <4>4
    <3>2. IsFiniteSet(drafted) /\ Cardinality(drafted) <= Cardinality(Slots)
      BY FewCodes
    <3>3. Recent' \subseteq Recent
      <4>1. PICK c \in Codes : otp' = [otp EXCEPT ![c] = [otp[c] EXCEPT !.row = "DRAFT"]]
        BY <2>2 DEF SendCounts
      <4>2. otp'[c].row = "DRAFT"
        BY <2>0, <4>1 DEF CodesTypeOK, OtpRow
      <4> QED
        BY <2>0, <4>1, <4>2 DEF Recent, There, CodesTypeOK
    <3>4. (Recent \cup Coming)' \subseteq Recent \cup drafted
      BY <3>3 DEF Coming
    <3>5. /\ IsFiniteSet(Recent \cup drafted)
          /\ Cardinality(Recent \cup drafted) = Cardinality(Recent) + Cardinality(drafted) - Cardinality(Recent \cap drafted)
      BY <3>1, <3>2, FS_Union
    <3>6. Cardinality(drafted) \in Nat /\ Cardinality(Recent \cap drafted) \in Nat
      <4>1. IsFiniteSet(Recent \cap drafted)
        BY <3>1, FS_Intersection
      <4> QED
        BY <3>2, <4>1, FS_CardinalityType
    <3>7. /\ Cardinality((Recent \cup Coming)') <= Cardinality(Recent \cup drafted)
          /\ Cardinality((Recent \cup Coming)') \in Nat
      <4>1. IsFiniteSet((Recent \cup Coming)')
        BY <3>4, <3>5, FS_Subset
      <4> QED
        BY <3>4, <3>5, <4>1, FS_Subset, FS_CardinalityType
    <3> HIDE DEF drafted
    <3> QED
      BY <1>0, <3>1, <3>2, <3>5, <3>6, <3>7 DEF FewRecent
  <2> QED
    BY <2>1, <2>2
<1>5. FewRecent => HourlyOvershoot
  <2>1. Recent \in SUBSET (Recent \cup Coming) /\ Recent = {c \in There : otp[c].recent}
    BY DEF Recent
  <2>2. Cardinality(Recent) <= Cardinality(Recent \cup Coming)
        /\ Cardinality(Recent) \in Nat /\ Cardinality(Recent \cup Coming) \in Nat
    BY <1>1, <1>2, <2>1
  <2> QED
    BY <1>0, <2>1, <2>2 DEF FewRecent, HourlyOvershoot
<1> QED
  BY <1>3, <1>4, <1>5, AccountedAlways, PTL DEF Spec
=============================================================================
