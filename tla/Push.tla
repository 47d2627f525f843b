-------------------------------- MODULE Push --------------------------------
(***************************************************************************)
(* Push notifications: the tokens that users register, the messages sent   *)
(* to them through Expo, the tickets that Expo answers with, and the cron  *)
(* job that asks for the receipts of the tickets - hours later, when a     *)
(* token may belong to a device that has come back or to somebody else.    *)
(*                                                                         *)
(* Expo is external: it refuses or takes each message, and the receipt of  *)
(* what it took says, if it ever comes, whether the device was there.      *)
(***************************************************************************)
EXTENDS Integers, FiniteSets

CONSTANTS
  Users, Tokens,
  Tickets,  \* ids of tickets: bounds those outstanding
  Slots,    \* requests handled at the same time
  Batch,    \* PUSH_TICKET_BATCH_SIZE
  MaxFaults, \* bounds restarts and failed calls
  NoUser, NoToken

ASSUME NamesAssumption == NoUser \notin Users /\ NoToken \notin Tokens
ASSUME TicketsAssumption == IsFiniteSet(Tickets)
ASSUME BatchAssumption == Batch \in Nat \ {0} /\ MaxFaults \in Nat

VARIABLES
  owner,  \* push_tokens: whose each token is
  device, \* whether Expo knows the device
  ticket, \* push_tickets, and what Expo will say of each
  req,    \* the request in each slot: a registration or a message to send
  cron,   \* checkPushReceipts
  faults  \* restarts and failed calls so far

vars == <<owner, device, ticket, req, cron, faults>>

\* Whether it is a row; what the receipt says; older than PUSH_TICKET_MAX_AGE_MS.
TicketRow == [stored : BOOLEAN, token : Tokens \cup {NoToken}, reached : BOOLEAN, old : BOOLEAN]
NoTicket == [stored |-> FALSE, token |-> NoToken, reached |-> TRUE, old |-> FALSE]

\* to: the tokens a message goes to; dead: those Expo refused; taken: their tickets.
Request == [op : {"idle", "register", "send"}, user : Users \cup {NoUser},
            to : SUBSET Tokens, dead : SUBSET Tokens, taken : SUBSET Tickets]
Idle == [op |-> "idle", user |-> NoUser, to |-> {}, dead |-> {}, taken |-> {}]

\* got: the receipts fetched and not yet handled; resolved: the tickets to delete;
\* aged: those older than the cutoff.
Job == [step : {"idle", "fetch", "handle", "age"}, batch : SUBSET Tickets,
        got : SUBSET Tickets, resolved : SUBSET Tickets, aged : SUBSET Tickets]
JobIdle == [step |-> "idle", batch |-> {}, got |-> {}, resolved |-> {}, aged |-> {}]

Init ==
  /\ owner = [t \in Tokens |-> NoUser]
  /\ device = [t \in Tokens |-> TRUE]
  /\ ticket = [k \in Tickets |-> NoTicket]
  /\ req = [s \in Slots |-> Idle]
  /\ cron = JobIdle
  /\ faults = 0

Stored == {k \in Tickets : ticket[k].stored}
\* Ids that nothing refers to any more stand for new ones.
Unused == Tickets \ (Stored \cup (UNION {req[s].taken : s \in Slots})
                      \cup cron.batch \cup cron.resolved \cup cron.aged)
DropRow(t) == owner' = [owner EXCEPT ![t] = NoUser]
Fault == faults < MaxFaults /\ faults' = faults + 1

-----------------------------------------------------------------------------
(* Tokens.                                                                 *)

\* findUnique: a token of another account is refused.
RegisterArrives(s, u, t) ==
  /\ req[s] = Idle
  /\ owner[t] \in {u, NoUser}
  /\ req' = [req EXCEPT ![s] = [Idle EXCEPT !.op = "register", !.user = u, !.to = {t}]]
  /\ UNCHANGED <<owner, device, ticket, cron, faults>>

\* upsert: a token that has been registered since keeps its account.
Registers(s) ==
  /\ req[s].op = "register"
  /\ owner' = [t \in Tokens |-> IF t \in req[s].to /\ owner[t] = NoUser THEN req[s].user ELSE owner[t]]
  /\ req' = [req EXCEPT ![s] = Idle]
  /\ UNCHANGED <<device, ticket, cron, faults>>

RemoveToken(u, t) ==
  /\ owner[t] = u
  /\ DropRow(t)
  /\ UNCHANGED <<device, ticket, req, cron, faults>>

-----------------------------------------------------------------------------
(* sendToUser: one chunk.                                                  *)

SendArrives(s, u) ==
  /\ req[s] = Idle
  /\ LET to == {t \in Tokens : owner[t] = u}
     IN  /\ to # {}
         /\ req' = [req EXCEPT ![s] = [Idle EXCEPT !.op = "send", !.user = u, !.to = to]]
  /\ UNCHANGED <<owner, device, ticket, cron, faults>>

\* Expo's answer: a ticket for each message it takes; DeviceNotRegistered at once, or
\* any other error, for those it does not.
Expo(s) ==
  /\ req[s].op = "send" /\ req[s].to # {}
  /\ \E tok \in [Tickets -> Tokens \cup {NoToken}], dead \in SUBSET req[s].to :
       LET used == {k \in Tickets : tok[k] # NoToken}
       IN  /\ \A t \in dead : ~device[t]
           /\ used \subseteq Unused /\ \A k \in used : tok[k] \in req[s].to \ dead
           /\ \A k, l \in used : tok[k] = tok[l] => k = l
           /\ ticket' = [k \in Tickets |->
                IF k \in used THEN [NoTicket EXCEPT !.token = tok[k], !.reached = device[tok[k]]]
                ELSE ticket[k]]
           /\ req' = [req EXCEPT ![s].to = {}, ![s].dead = dead, ![s].taken = used]
  /\ UNCHANGED <<owner, device, cron, faults>>

SendDrops(s, t) ==
  /\ req[s].op = "send" /\ req[s].to = {} /\ t \in req[s].dead
  /\ DropRow(t)
  /\ req' = [req EXCEPT ![s].dead = @ \ {t}]
  /\ UNCHANGED <<device, ticket, cron, faults>>

SendStores(s) ==
  /\ req[s].op = "send" /\ req[s].to = {} /\ req[s].dead = {}
  /\ ticket' = [k \in Tickets |-> IF k \in req[s].taken THEN [ticket[k] EXCEPT !.stored = TRUE] ELSE ticket[k]]
  /\ req' = [req EXCEPT ![s] = Idle]
  /\ UNCHANGED <<owner, device, cron, faults>>

-----------------------------------------------------------------------------
(* checkPushReceipts.                                                      *)

\* Variant: all of them.
Finds_All ==
  /\ cron.step = "idle"
  /\ cron' = [JobIdle EXCEPT !.step = IF Stored = {} THEN "age" ELSE "fetch", !.batch = Stored,
                             !.aged = {k \in Tickets : ticket[k].old}]
  /\ UNCHANGED <<owner, device, ticket, req, faults>>
\* Any Batch rows, in no order.
Finds ==
  /\ cron.step = "idle"
  /\ \E batch \in SUBSET Stored :
       /\ Cardinality(batch) = IF Cardinality(Stored) < Batch THEN Cardinality(Stored) ELSE Batch
       /\ cron' = [JobIdle EXCEPT !.step = IF batch = {} THEN "age" ELSE "fetch", !.batch = batch,
                                  !.aged = {k \in Tickets : ticket[k].old}]
  /\ UNCHANGED <<owner, device, ticket, req, faults>>

\* The receipts that Expo has by now.
Fetches ==
  /\ cron.step = "fetch"
  /\ \E got \in SUBSET cron.batch : cron' = [cron EXCEPT !.step = "handle", !.got = got]
  /\ UNCHANGED <<owner, device, ticket, req, faults>>

\* Variant: whatever the receipt says.
Handles_Any(k) ==
  /\ cron.step = "handle" /\ k \in cron.got
  /\ DropRow(ticket[k].token)
  /\ cron' = [cron EXCEPT !.got = @ \ {k}, !.resolved = @ \cup {k}]
  /\ UNCHANGED <<device, ticket, req, faults>>
\* A receipt of a device that is gone deletes the token, whoever has it now.
Handles(k) ==
  /\ cron.step = "handle" /\ k \in cron.got
  /\ IF ticket[k].reached THEN UNCHANGED owner ELSE DropRow(ticket[k].token)
  /\ cron' = [cron EXCEPT !.got = @ \ {k}, !.resolved = @ \cup {k}]
  /\ UNCHANGED <<device, ticket, req, faults>>

Deleted(ks) == ticket' = [k \in Tickets |-> IF k \in ks /\ ticket[k].stored THEN NoTicket ELSE ticket[k]]

Resolves ==
  /\ cron.step = "handle" /\ cron.got = {}
  /\ Deleted(cron.resolved)
  /\ cron' = [cron EXCEPT !.step = "age"]
  /\ UNCHANGED <<owner, device, req, faults>>

\* Variant: only when there was something to resolve.
Ages_IfResolved ==
  /\ cron.step = "age"
  /\ IF cron.resolved # {} THEN Deleted(cron.aged) ELSE UNCHANGED ticket
  /\ cron' = JobIdle
  /\ UNCHANGED <<owner, device, req, faults>>
Ages ==
  /\ cron.step = "age"
  /\ Deleted(cron.aged)
  /\ cron' = JobIdle
  /\ UNCHANGED <<owner, device, req, faults>>

-----------------------------------------------------------------------------
(* Failures, devices and time.                                             *)

\* Expo does not answer (caught and logged), or the tickets cannot be stored.
SendFails(s) ==
  /\ req[s].op = "send" /\ (req[s].to # {} \/ req[s].dead = {}) /\ Fault
  /\ req' = [req EXCEPT ![s] = Idle]
  /\ UNCHANGED <<owner, device, ticket, cron>>

\* The database refuses to delete a token (.catch(() => {})).
SendDropFails(s, t) ==
  /\ req[s].op = "send" /\ t \in req[s].dead /\ Fault
  /\ req' = [req EXCEPT ![s].dead = @ \ {t}]
  /\ UNCHANGED <<owner, device, ticket, cron>>

\* No receipts: on to the old ones.
FetchFails ==
  /\ cron.step = "fetch" /\ Fault
  /\ cron' = [cron EXCEPT !.step = "age"]
  /\ UNCHANGED <<owner, device, ticket, req>>

\* A delete that fails is not tried again.
DropFails(k) ==
  /\ cron.step = "handle" /\ k \in cron.got /\ Fault
  /\ cron' = [cron EXCEPT !.got = @ \ {k}, !.resolved = @ \cup {k}]
  /\ UNCHANGED <<owner, device, ticket, req>>

\* A restart, or an exception out of the job.
Crash ==
  /\ Fault
  /\ req' = [s \in Slots |-> Idle]
  /\ cron' = JobIdle
  /\ UNCHANGED <<owner, device, ticket>>

DeviceGone(t) == device[t] /\ device' = [device EXCEPT ![t] = FALSE]
                 /\ UNCHANGED <<owner, ticket, req, cron, faults>>
DeviceBack(t) == ~device[t] /\ device' = [device EXCEPT ![t] = TRUE]
                 /\ UNCHANGED <<owner, ticket, req, cron, faults>>

DayPasses(k) ==
  /\ ticket[k].stored /\ ~ticket[k].old
  /\ ticket' = [ticket EXCEPT ![k].old = TRUE]
  /\ UNCHANGED <<owner, device, req, cron, faults>>

-----------------------------------------------------------------------------
Handle(s) == Registers(s) \/ Expo(s) \/ SendStores(s) \/ \E t \in Tokens : SendDrops(s, t)
Receipts  == Finds \/ Fetches \/ Resolves \/ Ages \/ \E k \in Tickets : Handles(k)
Failures  ==
  \/ FetchFails \/ Crash
  \/ \E k \in Tickets : DropFails(k)
  \/ \E s \in Slots : SendFails(s) \/ \E t \in Tokens : SendDropFails(s, t)
AppStarts(u, t) == device[t] /\ \E s \in Slots : RegisterArrives(s, u, t)

Next ==
  \/ \E s \in Slots : Handle(s) \/ \E u \in Users : SendArrives(s, u)
  \/ \E u \in Users, t \in Tokens : AppStarts(u, t) \/ RemoveToken(u, t)
  \/ Receipts \/ Failures
  \/ \E t \in Tokens : DeviceGone(t) \/ DeviceBack(t)
  \/ \E k \in Tickets : DayPasses(k)

Spec == Init /\ [][Next]_vars

\* Requests are served, the job runs every quarter of an hour, and days pass; neither
\* users nor Expo have to do anything.
FairSpec ==
  /\ Spec
  /\ \A s \in Slots : WF_vars(Handle(s))
  /\ WF_vars(Receipts)
  /\ \A k \in Tickets : WF_vars(DayPasses(k))

-----------------------------------------------------------------------------
(* Correctness.                                                            *)

\* Every token, ticket, request and the job keep their shape, and a run of the job
\* has no more than its batch in hand.
TypeOK ==
  /\ owner \in [Tokens -> Users \cup {NoUser}]
  /\ device \in [Tokens -> BOOLEAN]
  /\ ticket \in [Tickets -> TicketRow]
  /\ req \in [Slots -> Request]
  /\ cron \in Job
  /\ Cardinality(cron.batch) <= Batch /\ cron.got \cup cron.resolved \subseteq cron.batch
  /\ faults \in 0..MaxFaults

\* Every ticket is resolved or aged out in the end, whether or not Expo has a receipt
\* for it and however many runs of the job are cut short (checkPushReceipts).
TicketsDrain == \A k \in Tickets : ticket[k].stored ~> ~ticket[k].stored

\* Receipts of an old outage may cost a device that is back its registration, but not
\* for good: once the device stays and its app keeps registering it, and nobody
\* removes it, it stays registered (registerToken, checkPushReceipts).
ReachableAgain ==
  \A t \in Tokens, u \in Users :
    /\ <>[](device[t] /\ owner[t] \in {u, NoUser})
    /\ <>[][~RemoveToken(u, t)]_vars
    /\ []<><<\E s \in Slots : RegisterArrives(s, u, t)>>_vars
    => <>[](owner[t] = u)
=============================================================================
