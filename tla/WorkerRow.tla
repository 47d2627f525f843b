------------------------------ MODULE WorkerRow ------------------------------
(***************************************************************************)
(* The transactions that write one worker's row of worker_profiles,        *)
(* statement by statement and with the row locks of PostgreSQL: reviews    *)
(* and their deletion recompute the rating, a completed job is counted, a  *)
(* cancellation or a confirmed no-show strikes.  They run at READ          *)
(* COMMITTED: each statement sees what is committed when it begins, waits  *)
(* for the lock of the row it writes, and checks the row again afterwards. *)
(* Bookings has the same operations as single steps; here is what their    *)
(* insides can do to each other.                                           *)
(***************************************************************************)
EXTENDS Integers, Sequences, FiniteSets

CONSTANTS
  Jobs,  \* bookings of the worker that have been started
  Slots, \* requests handled at the same time
  NoJob

ASSUME JobsAssumption == IsFiniteSet(Jobs) /\ NoJob \notin Jobs
ASSUME SlotsAssumption == IsFiniteSet(Slots)

VARIABLES
  status,   \* bookings.status
  reported, \* bookings with an unresolved no-show report
  struck,   \* bookings with a strike
  reviewed, \* bookings with a review
  profile,  \* counts and rating of the worker; a rating is named by the reviews it is of
  req,      \* the request in each slot
  settled   \* history: the last to write the rating was the only one at it

vars == <<status, reported, struck, reviewed, profile, req, settled>>

Writers  == {"review", "unreview"}
Strikers == {"cancel", "confirm"}

\* The rows a transaction writes, in order; "sum" is the aggregate over the reviews.
\* Variant: the profile is updated before the review is written.
Plan_ProfileFirst == [
  review   |-> <<"sum", "profile", "review">>,
  unreview |-> <<"review", "sum", "profile">>,
  complete |-> <<"booking", "profile">>,
  cancel   |-> <<"strike", "profile", "booking">>,
  confirm  |-> <<"report", "strike", "profile", "booking">>]
Plan == [
  review   |-> <<"review", "sum", "profile">>,                \* ReviewsService.create
  unreview |-> <<"review", "sum", "profile">>,                \* AdminService.deleteReview
  complete |-> <<"booking", "profile">>,                      \* BookingsService.complete
  cancel   |-> <<"strike", "profile", "booking">>,            \* cancel by the worker
  confirm  |-> <<"report", "strike", "profile", "booking">>]  \* resolveNoShow, confirmed

Request == [op : DOMAIN Plan, job : Jobs, step : 1..5, seen : SUBSET Jobs, alone : BOOLEAN]
Idle == [op |-> "idle", job |-> NoJob, step |-> 0, seen |-> {}, alone |-> FALSE]

\* A worker has one active booking at a time; a report on it waits for its verdict.
Init ==
  /\ \E active \in Jobs :
       /\ status = [j \in Jobs |-> IF j = active THEN "IN_PROGRESS" ELSE "COMPLETED"]
       /\ reported \in SUBSET {active}
  /\ struck = {}
  /\ reviewed = {}
  /\ profile = [jobs |-> Cardinality(Jobs) - 1, strikes |-> 0, rating |-> {}]
  /\ req = [s \in Slots |-> Idle]
  /\ settled = TRUE

-----------------------------------------------------------------------------
(* Locks.                                                                  *)

Row(op, job, n) ==
  LET e == Plan[op][n] IN IF e = "profile" THEN <<e, NoJob>> ELSE <<e, job>>
Busy(s)  == req[s].op # "idle"
Left(s)  == Busy(s) /\ req[s].step <= Len(Plan[req[s].op])
Wants(s) == Row(req[s].op, req[s].job, req[s].step)
Holds(s) ==
  IF Busy(s)
  THEN {Row(req[s].op, req[s].job, n) : n \in {m \in 1..(req[s].step - 1) : Plan[req[s].op][m] # "sum"}}
  ELSE {}
WaitsFor(s, u) == s # u /\ Left(s) /\ Wants(s) \in Holds(u)
Free(s) == \A u \in Slots : ~WaitsFor(s, u)
\* Each of them waits for another of them, and another of them for it.
Cycle(D) == \A s \in D : \E u, v \in D : WaitsFor(s, u) /\ WaitsFor(v, s)

-----------------------------------------------------------------------------
(* Requests.                                                               *)

\* What the handler reads before its transaction.
Accepts(op, job) ==
  CASE op = "review"   -> status[job] = "COMPLETED" /\ job \notin reviewed
    [] op = "unreview" -> job \in reviewed
    [] op = "confirm"  -> job \in reported
    [] OTHER           -> status[job] = "IN_PROGRESS"

Writing == {s \in Slots : req[s].op \in Writers}

Arrives(s, op, job) ==
  /\ ~Busy(s)
  /\ Accepts(op, job)
  /\ req' = [u \in Slots |->
       IF u = s THEN [op |-> op, job |-> job, step |-> 1, seen |-> {},
                      alone |-> op \in Writers /\ Writing = {}]
       ELSE IF op \in Writers /\ u \in Writing THEN [req[u] EXCEPT !.alone = FALSE] ELSE req[u]]
  /\ UNCHANGED <<status, reported, struck, reviewed, profile, settled>>

\* What the statement itself requires of the row, once it has its lock: the unique
\* keys of reviews and strikes, a row to delete, and the status in the WHERE of
\* updateMany.  A verdict writes the booking whatever its status.
Admits(op, job, e) ==
  CASE e = "review"  -> (job \in reviewed) = (op = "unreview")
    [] e = "strike"  -> job \notin struck
    [] e = "booking" -> op = "confirm" \/ status[job] = "IN_PROGRESS"
    [] OTHER         -> TRUE

\* Variant: the average is taken of what was there before the request.
Sum_Before(op, job) == reviewed
Sum(op, job) == IF op = "review" THEN reviewed \cup {job} ELSE reviewed \ {job}

Executes(s) ==
  /\ Left(s) /\ Free(s)
  /\ LET r == req[s]  e == Plan[r.op][r.step]
     IN  /\ Admits(r.op, r.job, e)
         /\ req' = [req EXCEPT ![s] =
              [r EXCEPT !.step = @ + 1, !.seen = IF e = "sum" THEN Sum(r.op, r.job) ELSE @]]
  /\ UNCHANGED <<status, reported, struck, reviewed, profile, settled>>

\* P2002, P2025 or a ConflictException: the transaction is rolled back.
Refused(s) ==
  /\ Left(s) /\ Free(s)
  /\ ~Admits(req[s].op, req[s].job, Plan[req[s].op][req[s].step])
  /\ req' = [req EXCEPT ![s] = Idle]
  /\ UNCHANGED <<status, reported, struck, reviewed, profile, settled>>

\* PostgreSQL aborts one of those who wait for each other.
Victim(s) ==
  /\ \E D \in SUBSET Slots : s \in D /\ Cycle(D)
  /\ req' = [req EXCEPT ![s] = Idle]
  /\ UNCHANGED <<status, reported, struck, reviewed, profile, settled>>

Commits(s, ops) ==
  /\ req[s].op \in ops /\ ~Left(s)
  /\ req' = [req EXCEPT ![s] = Idle]

\* computeWorkerRatingUpdate: average, total and ranking of the reviews seen.
RatingCommits(s) ==
  /\ Commits(s, Writers)
  /\ reviewed' = IF req[s].op = "review" THEN reviewed \cup {req[s].job} ELSE reviewed \ {req[s].job}
  /\ profile' = [profile EXCEPT !.rating = req[s].seen]
  /\ settled' = req[s].alone
  /\ UNCHANGED <<status, reported, struck>>

CompletionCommits(s) ==
  /\ Commits(s, {"complete"})
  /\ status' = [status EXCEPT ![req[s].job] = "COMPLETED"]
  /\ profile' = [profile EXCEPT !.jobs = @ + 1]
  /\ UNCHANGED <<reported, struck, reviewed, settled>>

\* Variant: the counter goes the wrong way.
StrikeCommits_Down(s) ==
  /\ Commits(s, Strikers)
  /\ status' = [status EXCEPT ![req[s].job] = IF req[s].op = "cancel" THEN "CANCELLED" ELSE "NO_SHOW"]
  /\ struck' = struck \cup {req[s].job}
  /\ profile' = [profile EXCEPT !.strikes = @ - 1]
  /\ reported' = IF req[s].op = "confirm" THEN reported \ {req[s].job} ELSE reported
  /\ UNCHANGED <<reviewed, settled>>
StrikeCommits(s) ==
  /\ Commits(s, Strikers)
  /\ status' = [status EXCEPT ![req[s].job] = IF req[s].op = "cancel" THEN "CANCELLED" ELSE "NO_SHOW"]
  /\ struck' = struck \cup {req[s].job}
  /\ profile' = [profile EXCEPT !.strikes = @ + 1]
  /\ reported' = IF req[s].op = "confirm" THEN reported \ {req[s].job} ELSE reported
  /\ UNCHANGED <<reviewed, settled>>

-----------------------------------------------------------------------------
Handle(s) == Executes(s) \/ Refused(s) \/ RatingCommits(s) \/ CompletionCommits(s) \/ StrikeCommits(s)

Next ==
  \E s \in Slots :
    \/ \E op \in DOMAIN Plan, job \in Jobs : Arrives(s, op, job)
    \/ Handle(s)
    \/ Victim(s)

Spec == Init /\ [][Next]_vars

-----------------------------------------------------------------------------
(* Correctness.                                                            *)

\* Every row and request keeps its shape.
TypeOK ==
  /\ status \in [Jobs -> {"IN_PROGRESS", "COMPLETED", "CANCELLED", "NO_SHOW"}]
  /\ reported \subseteq Jobs /\ struck \subseteq Jobs /\ reviewed \subseteq Jobs
  /\ profile \in [jobs : Nat, strikes : Nat, rating : SUBSET Jobs]
  /\ req \in [Slots -> Request \cup {Idle}]
  /\ settled \in BOOLEAN

\* Two writers of reviews that cross may leave the rating one review behind (each
\* counts without the other's); a writer that was the only one repairs it, whatever
\* happened before (create, deleteReview).
AloneRepairs == settled => profile.rating = reviewed

\* Transactions wait for each other only where the completion of a booking - the
\* booking, then the profile - meets a strike for it - the profile, then the booking.
OnlyCompletionDeadlocks ==
  \A D \in SUBSET Slots : D # {} /\ Cycle(D) =>
    \E s, u \in D : /\ req[s].op = "complete" /\ req[u].op \in Strikers
                    /\ req[s].job = req[u].job
=============================================================================
