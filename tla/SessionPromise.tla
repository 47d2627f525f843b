--------------------------- MODULE SessionPromise ---------------------------
(***************************************************************************)
(* What the refresh tokens promise about a login: the session it opens     *)
(* goes on until something closes it, and then it is over.  Sessions.tla   *)
(* is checked to implement this specification.                             *)
(***************************************************************************)
CONSTANT Logins

VARIABLE session   \* "none" before the login, "open", "closed"

vars == session

Init == session = [l \in Logins |-> "none"]

Open(l) ==
  /\ session[l] = "none"
  /\ session' = [session EXCEPT ![l] = "open"]

\* One statement may end any number of sessions.
Close(L) ==
  /\ \A l \in L : session[l] = "open"
  /\ session' = [l \in Logins |-> IF l \in L THEN "closed" ELSE session[l]]

Next == (\E l \in Logins : Open(l)) \/ (\E L \in SUBSET Logins : Close(L))

Spec == Init /\ [][Next]_vars
=============================================================================
