--------------------------- MODULE SessionsProofs ---------------------------
(***************************************************************************)
(* Theorems about Sessions, for any number of tokens and of requests in    *)
(* flight.  Lineage is inductive; with it, the one guard that matters is   *)
(* the count of rows the rotation revoked.                                 *)
(***************************************************************************)
EXTENDS Sessions, TLAPS

\* The rows and the histories are typed in every step (all of Sessions).
LEMMA TypeStep ==
  ASSUME TypeOK, [Next]_vars
  PROVE  TypeOK'
<1> USE DEF TypeOK, Request, Idle, History
<1> SUFFICES ASSUME TypeOK, [Next]_vars PROVE TypeOK'
  OBVIOUS
<1>1. CASE UNCHANGED vars
  BY <1>1 DEF vars
<1>2. ASSUME NEW s \in Slots, LoginArrives(s) PROVE TypeOK'
  BY <1>2 DEF LoginArrives, Arrive
<1>3. ASSUME NEW s \in Slots, IssueTokens(s) PROVE TypeOK'
  BY <1>3 DEF IssueTokens, Done
<1>4. ASSUME NEW s \in Slots, NEW t \in Tokens, RefreshArrives(s, t) PROVE TypeOK'
  BY <1>4 DEF RefreshArrives, Arrive
<1>5. ASSUME NEW s \in Slots, RefreshReads(s) PROVE TypeOK'
  <2>1. req[s].op = "refresh" /\ req[s] \in Request /\ req[s].token \in Tokens
    BY <1>5 DEF RefreshReads, At
  <2>2. \/ req' = [req EXCEPT ![s].op = "revokeAll", ![s].step = "see"]
        \/ req' = [req EXCEPT ![s].op = "refresh", ![s].step = "write"]
        \/ req' = [req EXCEPT ![s] = Idle]
    BY <1>5 DEF RefreshReads, Goto, Done
  <2>3. req' \in [Slots -> Request]
    BY <2>1, <2>2
  <2>4. \A u \in Slots : req'[u].op = "refresh" => req'[u].token \in Tokens
    BY <2>1, <2>2
  <2> QED
    BY <1>5, <2>3, <2>4 DEF RefreshReads
<1>6. ASSUME NEW s \in Slots, Rotate(s) PROVE TypeOK'
  BY <1>6 DEF Rotate, At, Done
<1>7. ASSUME NEW s \in Slots, Refused(s) PROVE TypeOK'
  BY <1>7 DEF Refused, Done
<1>8. ASSUME NEW s \in Slots, RevokeAllArrives(s) PROVE TypeOK'
  BY <1>8 DEF RevokeAllArrives, Arrive
<1>9. ASSUME NEW s \in Slots, RevokeSees(s) PROVE TypeOK'
  <2> DEFINE r == [req[s] EXCEPT !.step = "write", !.seen = Live]
  <2>1. req' = [req EXCEPT ![s] = r] /\ UNCHANGED <<token, expired, account, parent, login>>
    BY <1>9 DEF RevokeSees, History
  <2>2. req[s] \in Request /\ req[s].op = "revokeAll" /\ Live \subseteq Tokens
    BY <1>9 DEF RevokeSees, At, Live
  <2>3. r \in Request /\ r.op = "revokeAll"
    BY <2>2
  <2> HIDE DEF r
  <2> QED
    BY <2>1, <2>3
<1>10. ASSUME NEW s \in Slots, RevokeWrites(s) PROVE TypeOK'
  BY <1>10 DEF RevokeWrites, Done
<1>11. ASSUME NEW t \in Tokens, RevokeSession(t) \/ Expires(t) PROVE TypeOK'
  BY <1>11 DEF RevokeSession, Expires
<1>12. ASSUME NEW st \in {"ACTIVE", "SUSPENDED"}, SetSuspension(st) PROVE TypeOK'
  BY <1>12 DEF SetSuspension
<1>13. ASSUME NEW old \in SUBSET Purgeable, Purge(old) PROVE TypeOK'
  BY <1>13 DEF Purge
<1>14. CASE Crash
  BY <1>14 DEF Crash
<1> QED
  BY <1>1, <1>2, <1>3, <1>4, <1>5, <1>6, <1>7, <1>8, <1>9, <1>10, <1>11, <1>12, <1>13, <1>14
     DEF Next, Serve

-----------------------------------------------------------------------------
(* Every step but an issue and a rotation only spends tokens.              *)

\* Live tokens may cease to be, none starts, and no history changes (revocation,
\* purge, and all steps that write no token).
Spends ==
  /\ \A t \in Tokens : \/ token'[t] = token[t]
                       \/ token[t] # "NONE" /\ token'[t] \in {"REVOKED", "PURGED"}
  /\ UNCHANGED History

\* What a rotation does to the rows and the histories (refreshToken).
Rotates(r, n) ==
  /\ token[r] = "LIVE" /\ token[n] = "NONE"
  /\ token' = [token EXCEPT ![r] = "REVOKED", ![n] = "LIVE"]
  /\ parent' = [parent EXCEPT ![n] = r]
  /\ login' = [login EXCEPT ![n] = login[r]]

\* What a login does to them (issueTokens).
Issues(n) ==
  /\ token[n] = "NONE"
  /\ token' = [token EXCEPT ![n] = "LIVE"]
  /\ login' = [login EXCEPT ![n] = n]
  /\ parent' = parent

\* Every step is one of the three: what the rest of the proofs argues from.
LEMMA ThreeKinds ==
  ASSUME TypeOK, [Next]_vars
  PROVE  \/ Spends
         \/ \E n \in Tokens : Issues(n)
         \/ \E r, n \in Tokens : Rotates(r, n)
<1> DEFINE Goal == \/ Spends
                   \/ \E n \in Tokens : Issues(n)
                   \/ \E r, n \in Tokens : Rotates(r, n)
<1> SUFFICES ASSUME TypeOK, [Next]_vars PROVE Goal
  OBVIOUS
<1>1. CASE token' = token /\ UNCHANGED History
  BY <1>1 DEF Spends
<1>2. ASSUME NEW s \in Slots, IssueTokens(s) PROVE Goal
  BY <1>2 DEF IssueTokens, Issues
<1>3. ASSUME NEW s \in Slots, Rotate(s) PROVE Goal
  <2>1. req[s].token \in Tokens
    BY <1>3 DEF Rotate, At, TypeOK
  <2> QED
    BY <1>3, <2>1 DEF Rotate, Rotates
<1>4. ASSUME NEW s \in Slots, RevokeWrites(s) PROVE Goal
  BY <1>4 DEF RevokeWrites, Live, Spends, History, TypeOK
<1>5. ASSUME NEW t \in Tokens, RevokeSession(t) PROVE Goal
  BY <1>5 DEF RevokeSession, Spends, History, TypeOK
<1>6. ASSUME NEW old \in SUBSET Purgeable, Purge(old) PROVE Goal
  BY <1>6 DEF Purge, Purgeable, Spends, History, TypeOK
<1>7. ASSUME NEW s \in Slots,
             LoginArrives(s) \/ RevokeAllArrives(s) \/ RefreshReads(s) \/ Refused(s)
               \/ RevokeSees(s) \/ (\E t \in Tokens : RefreshArrives(s, t))
      PROVE  token' = token /\ UNCHANGED History
  BY <1>7 DEF LoginArrives, RevokeAllArrives, RefreshReads, Refused, RevokeSees,
              RefreshArrives, History
<1>8. ASSUME NEW t \in Tokens, Expires(t) PROVE token' = token /\ UNCHANGED History
  BY <1>8 DEF Expires, History
<1>9. ASSUME NEW st \in {"ACTIVE", "SUSPENDED"}, SetSuspension(st)
      PROVE  token' = token /\ UNCHANGED History
  BY <1>9 DEF SetSuspension, History
<1>10. CASE UNCHANGED vars
  BY <1>1, <1>10 DEF vars, History
<1>11. Crash => token' = token /\ UNCHANGED History
  BY DEF Crash, History
<1> QED
  BY <1>1, <1>2, <1>3, <1>4, <1>5, <1>6, <1>7, <1>8, <1>9, <1>10, <1>11 DEF Next, Serve

-----------------------------------------------------------------------------
(* The inductive invariant.                                                *)

\* There are no tokens at the start.
LEMMA InitLineage == Init => Lineage
  BY TokensAssumption DEF Init, Lineage, TypeOK, Request, Idle

\* Lineage through each kind of step (issueTokens, refreshToken, the revocations).
LEMMA LineageStep ==
  ASSUME Lineage, [Next]_vars
  PROVE  Lineage'
<1>1. TypeOK /\ TypeOK'
  BY TypeStep DEF Lineage
<1>2. CASE Spends
  <2>1. \A t \in Tokens : token'[t] = "NONE" <=> token[t] = "NONE"
    BY <1>1, <1>2 DEF Spends
  <2>2. \A t \in Tokens : token[t] \in {"REVOKED", "PURGED"}
                           => token'[t] \in {"REVOKED", "PURGED"}
    BY <1>1, <1>2 DEF Spends
  <2>3. parent' = parent /\ login' = login
    BY <1>2 DEF Spends, History
  <2>4. \A t \in Tokens : parent[t] # NoToken => parent[t] \in Tokens
    BY <1>1 DEF TypeOK
  <2> QED
    BY <1>1, <2>1, <2>2, <2>3, <2>4 DEF Lineage
<1>3. ASSUME NEW n \in Tokens, Issues(n) PROVE Lineage'
  BY <1>1, <1>3, TokensAssumption DEF Issues, Lineage, TypeOK
<1>4. ASSUME NEW r \in Tokens, NEW n \in Tokens, Rotates(r, n) PROVE Lineage'
  BY <1>1, <1>4, TokensAssumption DEF Rotates, Lineage, TypeOK
<1> QED
  BY <1>1, <1>2, <1>3, <1>4, ThreeKinds

\* An exchanged token is spent for good, whatever revocations, purges and copies
\* of the request cross (refreshToken, purgeExpiredAuthRecords).
THEOREM SpentForGood == Spec => []Lineage
<1>1. Init => Lineage
  BY InitLineage
<1>2. Lineage /\ [Next]_vars => Lineage'
  BY LineageStep
<1> QED
  BY <1>1, <1>2, PTL DEF Spec

-----------------------------------------------------------------------------
(* One successor per token.                                                *)

\* A rotation finds its token live, so nobody has exchanged it (Lineage).
LEMMA OneSuccessorStep ==
  ASSUME Lineage, OneSuccessor, [Next]_vars
  PROVE  OneSuccessor'
<1> USE DEF OneSuccessor
<1>1. TypeOK
  BY DEF Lineage
<1>2. CASE Spends
  BY <1>2 DEF Spends, History
<1>3. ASSUME NEW n \in Tokens, Issues(n) PROVE OneSuccessor'
  BY <1>3 DEF Issues
<1>4. ASSUME NEW r \in Tokens, NEW n \in Tokens, Rotates(r, n) PROVE OneSuccessor'
  <2>1. \A t \in Tokens : parent[t] # r
    BY <1>4, TokensAssumption DEF Rotates, Lineage
  <2>2. \A t \in Tokens : parent'[t] = IF t = n THEN r ELSE parent[t]
    BY <1>1, <1>4 DEF Rotates, TypeOK
  <2> QED
    BY <2>1, <2>2
<1> QED
  BY <1>1, <1>2, <1>3, <1>4, ThreeKinds

\* A token is exchanged at most once, for any number of copies of the request
\* (the transaction of refreshToken).
THEOREM ExchangedOnce == Spec => []OneSuccessor
<1>1. Init => OneSuccessor
  BY DEF Init, OneSuccessor
<1>2. Lineage /\ OneSuccessor /\ [Next]_vars => OneSuccessor'
  BY OneSuccessorStep
<1> QED
  BY <1>1, <1>2, SpentForGood, PTL DEF Spec

-----------------------------------------------------------------------------
(* One working token per login.                                            *)

\* A rotation moves the one live token of a login; an issue starts a login.
LEMMA OneLiveStep ==
  ASSUME Lineage, OneLivePerLogin, [Next]_vars
  PROVE  OneLivePerLogin'
<1> USE DEF OneLivePerLogin, Live
<1>1. TypeOK
  BY DEF Lineage
<1>2. CASE Spends
  BY <1>2 DEF Spends, History
<1>3. ASSUME NEW n \in Tokens, Issues(n) PROVE OneLivePerLogin'
  <2>1. \A t \in Tokens : login[t] # n
    BY <1>3, TokensAssumption DEF Issues, Lineage
  <2>2. \A t \in Tokens : t # n => token'[t] = token[t] /\ login'[t] = login[t]
    BY <1>1, <1>3 DEF Issues, TypeOK
  <2>3. login'[n] = n
    BY <1>1, <1>3 DEF Issues, TypeOK
  <2> QED
    BY <2>1, <2>2, <2>3
<1>4. ASSUME NEW r \in Tokens, NEW n \in Tokens, Rotates(r, n) PROVE OneLivePerLogin'
  BY <1>1, <1>4 DEF Rotates, TypeOK
<1> QED
  BY <1>1, <1>2, <1>3, <1>4, ThreeKinds

\* A login never has two tokens that work, for any number of requests in flight
\* (refreshToken, issueTokens).
THEOREM OneWorkingToken == Spec => []OneLivePerLogin
<1>1. Init => OneLivePerLogin
  BY DEF Init, OneLivePerLogin, Live
<1>2. Lineage /\ OneLivePerLogin /\ [Next]_vars => OneLivePerLogin'
  BY OneLiveStep
<1> QED
  BY <1>1, <1>2, SpentForGood, PTL DEF Spec

-----------------------------------------------------------------------------
(* The promise to the user.                                                *)

\* Nobody is logged in at the start.
LEMMA InitPromise == Init => Promise!Init
  BY TokensAssumption DEF Init, Promise!Init, Session

\* What becomes of the sessions in a step (all of Sessions).
LEMMA PromiseStep ==
  ASSUME Lineage, [Next]_vars
  PROVE  [Promise!Next]_(Promise!vars)
<1> DEFINE Mapped == Promise!Next \/ UNCHANGED Session
<1>1. TypeOK
  BY DEF Lineage
<1>2. /\ Session = [l \in Tokens |-> Session[l]]
      /\ Session' = [l \in Tokens |-> Session'[l]]
  BY DEF Session
<1>3. ASSUME Spends PROVE Mapped
  <2> DEFINE L == {l \in Tokens : Session[l] = "open" /\ Session'[l] # "open"}
  <2>1. login' = login /\ Live' \subseteq Live
    BY <1>3 DEF Spends, History, Live
  <2>2. \A l \in Tokens : Session'[l] = IF l \in L THEN "closed" ELSE Session[l]
    BY <2>1 DEF Session
  <2>3. Session' = [l \in Tokens |-> IF l \in L THEN "closed" ELSE Session[l]]
    BY <2>2 DEF Session
  <2>4. L \in SUBSET Tokens /\ Promise!Close(L)
    BY <2>3 DEF Promise!Close
  <2> QED
    BY <2>4 DEF Promise!Next
<1>4. ASSUME NEW n \in Tokens, Issues(n) PROVE Mapped
  <2>1. login[n] = NoToken /\ \A t \in Tokens : login[t] # n
    BY <1>4, TokensAssumption DEF Issues, Lineage
  <2>2. login' = [login EXCEPT ![n] = n] /\ Live' = Live \cup {n}
    BY <1>1, <1>4 DEF Issues, Live, TypeOK
  <2>3. login'[n] = n /\ \A t \in Tokens : t # n => login'[t] = login[t]
    BY <1>1, <2>2 DEF TypeOK
  <2>4. Session[n] = "none" /\ Session'[n] = "open"
    BY <2>1, <2>2, <2>3, TokensAssumption DEF Session
  <2>5. ASSUME NEW l \in Tokens, l # n PROVE Session'[l] = Session[l]
    <3>1. n \notin Live
      BY <1>4 DEF Issues, Live
    <3>2. (\E t \in Live' : login'[t] = l) <=> (\E t \in Live : login[t] = l)
      BY <2>2, <2>3, <2>5, <3>1 DEF Live
    <3> QED
      BY <2>3, <2>5, <3>2 DEF Session
  <2>6. Session' = [Session EXCEPT ![n] = "open"]
    BY <1>2, <2>4, <2>5
  <2> QED
    BY <2>4, <2>6 DEF Promise!Open, Promise!Next
<1>5. ASSUME NEW r \in Tokens, NEW n \in Tokens, Rotates(r, n) PROVE Mapped
  <2>1. login[n] = NoToken /\ login[r] # n /\ n # r
    BY <1>5, TokensAssumption DEF Rotates, Lineage
  <2>2. Live' = (Live \ {r}) \cup {n} /\ r \in Live /\ n \notin Live
    BY <1>1, <1>5, <2>1 DEF Rotates, Live, TypeOK
  <2>3. login'[n] = login[r] /\ \A t \in Tokens : t # n => login'[t] = login[t]
    BY <1>1, <1>5 DEF Rotates, TypeOK
  <2>4. ASSUME NEW l \in Tokens PROVE Session'[l] = Session[l]
    <3>1. login'[l] = l <=> login[l] = l
      BY <2>1, <2>3, TokensAssumption
    <3>2. (\E t \in Live' : login'[t] = l) <=> (\E t \in Live : login[t] = l)
      BY <2>1, <2>2, <2>3 DEF Live
    <3> QED
      BY <3>1, <3>2 DEF Session
  <2>5. Session' = Session
    BY <1>2, <2>4
  <2> QED
    BY <2>5
<1>6. Mapped
  BY <1>3, <1>4, <1>5, <1>1, ThreeKinds
<1> QED
  BY <1>6 DEF Promise!vars

\* A login's session goes on until something closes it and then stays closed,
\* whatever rotations had read its token before (refreshToken, revokeSession,
\* revokeAllSessions): Sessions implements SessionPromise.
THEOREM KeepsPromise == Spec => ClosedStaysClosed
<1>1. Init => Promise!Init
  BY InitPromise
<1>2. Lineage /\ [Next]_vars => [Promise!Next]_(Promise!vars)
  BY PromiseStep
<1> QED
  BY <1>1, <1>2, SpentForGood, PTL DEF Spec, ClosedStaysClosed, Promise!Spec
=============================================================================
