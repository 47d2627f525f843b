------------------------------ MODULE Sessions ------------------------------
(***************************************************************************)
(* The refresh tokens of one user: issued at a login, rotated by           *)
(* POST /auth/refresh, revoked one by one, all together, or because a      *)
(* token that was already used comes back, and purged by a daily job.      *)
(*                                                                         *)
(* A request in flight is in a slot and other requests run at its awaits.  *)
(* A client may send any token it was ever given: an answer that got lost  *)
(* makes it repeat an old one.  An UPDATE of many rows changes the rows it *)
(* saw when it began (READ COMMITTED), so it is two steps: what it sees,   *)
(* and what it writes to those of them that still qualify.                 *)
(***************************************************************************)
EXTENDS Integers, FiniteSets

CONSTANTS
  Tokens,   \* keys of refresh_tokens: bounds how many are issued
  Slots,    \* requests handled at the same time
  NoToken   \* no token

ASSUME TokensAssumption == NoToken \notin Tokens

VARIABLES
  token,    \* the rows: "NONE" before the insert, "PURGED" after the delete
  expired,  \* the tokens whose expiresAt has passed, in the row and in the JWT
  account,  \* users.status
  req,      \* the request in each slot
  parent,   \* history: the token that each token replaced
  login     \* history: the token issued at the login that each descends from

vars == <<token, expired, account, req, parent, login>>
History == <<parent, login>>

\* seen: the rows an UPDATE in flight has found.
Request ==
  [op : {"idle", "login", "refresh", "revokeAll"}, token : Tokens \cup {NoToken},
   step : {"read", "see", "write"}, seen : SUBSET Tokens]
Idle == [op |-> "idle", token |-> NoToken, step |-> "read", seen |-> {}]

Init ==
  /\ token = [t \in Tokens |-> "NONE"]
  /\ expired = {}
  /\ account = "ACTIVE"
  /\ req = [s \in Slots |-> Idle]
  /\ parent = [t \in Tokens |-> NoToken]
  /\ login = [t \in Tokens |-> NoToken]

Live == {t \in Tokens : token[t] = "LIVE"}

Arrive(s, op, t, step) ==
  /\ req[s] = Idle
  /\ req' = [req EXCEPT ![s] = [op |-> op, token |-> t, step |-> step, seen |-> {}]]
Done(s)         == req' = [req EXCEPT ![s] = Idle]
At(s, op, step) == req[s].op = op /\ req[s].step = step

-----------------------------------------------------------------------------
(* POST /auth/verify-otp of an existing user: assertUserCanAuthenticate,   *)
(* then issueTokens; POST /auth/register ends in issueTokens too.          *)

LoginArrives(s) ==
  /\ account = "ACTIVE"
  /\ Arrive(s, "login", NoToken, "write")
  /\ UNCHANGED <<token, expired, account, History>>
IssueTokens(s) ==
  /\ At(s, "login", "write")
  /\ \E n \in Tokens :
       /\ token[n] = "NONE"
       /\ token' = [token EXCEPT ![n] = "LIVE"]
       /\ login' = [login EXCEPT ![n] = n]
  /\ Done(s)
  /\ UNCHANGED <<expired, account, parent>>

-----------------------------------------------------------------------------
(* POST /auth/refresh.  The signature, with its expiry, and the account    *)
(* are checked first; then the row is read, and a rotation written.        *)

RefreshArrives(s, t) ==
  /\ token[t] # "NONE" /\ t \notin expired
  /\ account = "ACTIVE"
  /\ Arrive(s, "refresh", t, "read")
  /\ UNCHANGED <<token, expired, account, History>>

\* isTokenReuse starts the revocation of all sessions; assertTokenIsValid.
Goto(s, op, step) == req' = [req EXCEPT ![s].op = op, ![s].step = step]
RefreshReads(s) ==
  /\ At(s, "refresh", "read")
  /\ LET t == req[s].token
         valid == token[t] = "LIVE" /\ t \notin expired
     IN  \/ token[t] = "REVOKED" /\ Goto(s, "revokeAll", "see")
         \/ valid /\ Goto(s, "refresh", "write")
         \/ token[t] # "REVOKED" /\ ~valid /\ Done(s)
  /\ UNCHANGED <<token, expired, account, History>>

\* Variants: the revocation in the transaction is not counted; it is left out.
Rotate_Uncounted(s) ==
  /\ At(s, "refresh", "write")
  /\ \E n \in Tokens :
       /\ token[n] = "NONE"
       /\ token' = [token EXCEPT ![req[s].token] = "REVOKED", ![n] = "LIVE"]
       /\ parent' = [parent EXCEPT ![n] = req[s].token]
       /\ login' = [login EXCEPT ![n] = login[req[s].token]]
  /\ Done(s)
  /\ UNCHANGED <<expired, account>>
Rotate_KeepsOld(s) ==
  /\ At(s, "refresh", "write") /\ token[req[s].token] = "LIVE"
  /\ \E n \in Tokens :
       /\ token[n] = "NONE"
       /\ token' = [token EXCEPT ![n] = "LIVE"]
       /\ parent' = [parent EXCEPT ![n] = req[s].token]
       /\ login' = [login EXCEPT ![n] = login[req[s].token]]
  /\ Done(s)
  /\ UNCHANGED <<expired, account>>
\* The transaction: the old token is revoked if nobody has, and replaced.
Rotate(s) ==
  /\ At(s, "refresh", "write") /\ token[req[s].token] = "LIVE"
  /\ \E n \in Tokens :
       /\ token[n] = "NONE"
       /\ token' = [token EXCEPT ![req[s].token] = "REVOKED", ![n] = "LIVE"]
       /\ parent' = [parent EXCEPT ![n] = req[s].token]
       /\ login' = [login EXCEPT ![n] = login[req[s].token]]
  /\ Done(s)
  /\ UNCHANGED <<expired, account>>

\* 401; a login or a rotation beyond the bound Tokens ends here too.
Refused(s) ==
  /\ \/ At(s, "refresh", "write") /\ token[req[s].token] # "LIVE"
     \/ req[s].op \in {"login", "refresh"} /\ req[s].step = "write"
          /\ \A n \in Tokens : token[n] # "NONE"
  /\ Done(s)
  /\ UNCHANGED <<token, expired, account, History>>

-----------------------------------------------------------------------------
(* DELETE /auth/sessions and /auth/sessions/:id.                           *)

RevokeAllArrives(s) ==
  /\ Arrive(s, "revokeAll", NoToken, "see")
  /\ UNCHANGED <<token, expired, account, History>>

RevokeSees(s) ==
  /\ At(s, "revokeAll", "see")
  /\ req' = [req EXCEPT ![s] = [@ EXCEPT !.step = "write", !.seen = Live]]
  /\ UNCHANGED <<token, expired, account, History>>

RevokeWrites(s) ==
  /\ At(s, "revokeAll", "write")
  /\ token' = [t \in Tokens |-> IF t \in req[s].seen \cap Live THEN "REVOKED" ELSE token[t]]
  /\ Done(s)
  /\ UNCHANGED <<expired, account, History>>

RevokeSession(t) ==
  /\ token[t] = "LIVE"
  /\ token' = [token EXCEPT ![t] = "REVOKED"]
  /\ UNCHANGED <<expired, account, req, History>>

-----------------------------------------------------------------------------
(* Suspension of the account, time, purgeExpiredAuthRecords (any token     *)
(* revoked or expired may have been so for the thirty days it asks for),   *)
(* and a restart of the server, which forgets the requests in flight.      *)

SetSuspension(st) ==
  /\ account # st
  /\ account' = st
  /\ UNCHANGED <<token, expired, req, History>>

Expires(t) ==
  /\ token[t] \in {"LIVE", "REVOKED"} /\ t \notin expired
  /\ expired' = expired \cup {t}
  /\ UNCHANGED <<token, account, req, History>>

Purgeable == {t \in Tokens : token[t] = "REVOKED" \/ (token[t] = "LIVE" /\ t \in expired)}
Purge(old) ==
  /\ old # {}
  /\ token' = [t \in Tokens |-> IF t \in old THEN "PURGED" ELSE token[t]]
  /\ UNCHANGED <<expired, account, req, History>>

Crash ==
  /\ \E s \in Slots : req[s] # Idle
  /\ req' = [s \in Slots |-> Idle]
  /\ UNCHANGED <<token, expired, account, History>>

-----------------------------------------------------------------------------
Serve(s) ==
  \/ IssueTokens(s) \/ RefreshReads(s) \/ Rotate(s) \/ Refused(s)
  \/ RevokeSees(s) \/ RevokeWrites(s)

Next ==
  \/ \E s \in Slots : \/ LoginArrives(s) \/ RevokeAllArrives(s) \/ Serve(s)
                      \/ \E t \in Tokens : RefreshArrives(s, t)
  \/ \E t \in Tokens : RevokeSession(t) \/ Expires(t)
  \/ \E st \in {"ACTIVE", "SUSPENDED"} : SetSuspension(st)
  \/ \E old \in SUBSET Purgeable : Purge(old)
  \/ Crash

Spec == Init /\ [][Next]_vars

-----------------------------------------------------------------------------
(* Correctness.                                                            *)

\* Every row and every request in flight keeps its shape, and a refresh names a
\* token.
TypeOK ==
  /\ token \in [Tokens -> {"NONE", "LIVE", "REVOKED", "PURGED"}]
  /\ expired \subseteq Tokens
  /\ account \in {"ACTIVE", "SUSPENDED"}
  /\ req \in [Slots -> Request]
  /\ \A s \in Slots : req[s].op = "refresh" => req[s].token \in Tokens
  /\ parent \in [Tokens -> Tokens \cup {NoToken}]
  /\ login \in [Tokens -> Tokens \cup {NoToken}]

\* A token that was exchanged is spent for good, also when a purge crosses, and
\* every token descends from a login (refreshToken, purgeExpiredAuthRecords).
Lineage ==
  /\ TypeOK
  /\ \A t \in Tokens :
       /\ token[t] = "NONE" <=> login[t] = NoToken
       /\ token[t] = "NONE" => parent[t] = NoToken
       /\ parent[t] # NoToken => token[parent[t]] \in {"REVOKED", "PURGED"}
       /\ login[t] # NoToken => login[login[t]] = login[t]

\* A token is exchanged at most once, however many copies of the request are in
\* flight (the transaction of refreshToken).
OneSuccessor ==
  \A t, u \in Tokens : parent[t] = parent[u] /\ parent[t] # NoToken => t = u

\* A login never has two tokens that work (refreshToken, issueTokens).
OneLivePerLogin ==
  \A t, u \in Live : login[t] = login[u] => t = u

\* A session that was closed stays closed, through rotations that had read its
\* token before (refreshToken against revokeSession and revokeAllSessions).
Session == [l \in Tokens |->
  IF login[l] # l THEN "none"
  ELSE IF \E t \in Live : login[t] = l THEN "open" ELSE "closed"]
Promise == INSTANCE SessionPromise WITH Logins <- Tokens, session <- Session
ClosedStaysClosed == Promise!Spec
=============================================================================
