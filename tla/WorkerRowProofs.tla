-------------------------- MODULE WorkerRowProofs --------------------------
(***************************************************************************)
(* Theorems about WorkerRow, for any number of requests and bookings.      *)
(***************************************************************************)
EXTENDS WorkerRow, FiniteSetTheorems, TLAPS

Ops == {"review", "unreview", "complete", "cancel", "confirm"}

\* The rows that each transaction writes, one by one.
LEMMA PlanTable ==
  /\ DOMAIN Plan = Ops
  /\ \A op \in Writers : Len(Plan[op]) = 3 /\ Plan[op][1] = "review" /\ Plan[op][2] = "sum" /\ Plan[op][3] = "profile"
  /\ Len(Plan["complete"]) = 2 /\ Plan["complete"][1] = "booking" /\ Plan["complete"][2] = "profile"
  /\ Len(Plan["cancel"]) = 3 /\ Plan["cancel"][1] = "strike" /\ Plan["cancel"][2] = "profile"
     /\ Plan["cancel"][3] = "booking"
  /\ Len(Plan["confirm"]) = 4 /\ Plan["confirm"][1] = "report" /\ Plan["confirm"][2] = "strike"
     /\ Plan["confirm"][3] = "profile" /\ Plan["confirm"][4] = "booking"
  BY DEF Plan, Ops, Writers

LEMMA PlanLength == \A op \in Ops : Len(Plan[op]) \in 2..4
  BY PlanTable DEF Ops, Writers

(***************************************************************************)
(* Types.                                                                  *)
(***************************************************************************)

LEMMA Clear ==
  ASSUME NEW r \in Request
  PROVE  [r EXCEPT !.alone = FALSE] \in Request
  BY DEF Request

LEMMA Step ==
  ASSUME NEW r \in Request, r.step <= 4, NEW x \in SUBSET Jobs, NEW c \in BOOLEAN
  PROVE  [r EXCEPT !.step = @ + 1, !.seen = IF c THEN x ELSE @] \in Request
<1>1. r.step + 1 \in 1..5
  BY DEF Request
<1>2. (IF c THEN x ELSE r.seen) \in SUBSET Jobs
  BY DEF Request
<1> QED
  BY <1>1, <1>2 DEF Request

\* A request that is busy has its operation, its booking and its step.
LEMMA BusyRequest ==
  ASSUME TypeOK, NEW s \in Slots, Busy(s)
  PROVE  req[s] \in Request /\ req[s].op \in Ops /\ req[s].job \in Jobs
  BY PlanTable DEF TypeOK, Busy, Idle, Request

\* Every row and request keeps its shape.
THEOREM TypeCorrect == Spec => []TypeOK
<1>1. Init => TypeOK
  <2> SUFFICES ASSUME Init PROVE TypeOK
    OBVIOUS
  <2>1. PICK active \in Jobs :
          /\ status = [j \in Jobs |-> IF j = active THEN "IN_PROGRESS" ELSE "COMPLETED"]
          /\ reported \in SUBSET {active}
    BY DEF Init
  <2>2. Cardinality(Jobs) \in Nat /\ Cardinality(Jobs) # 0
    BY <2>1, JobsAssumption, FS_CardinalityType, FS_EmptySet
  <2> QED
    BY <2>1, <2>2 DEF Init, TypeOK
<1>2. TypeOK /\ [Next]_vars => TypeOK'
  <2> SUFFICES ASSUME TypeOK, [Next]_vars PROVE TypeOK'
    OBVIOUS
  <2> USE DEF TypeOK
  <2>1. ASSUME NEW s \in Slots, NEW op \in DOMAIN Plan, NEW job \in Jobs, Arrives(s, op, job)
        PROVE  TypeOK'
    <3> DEFINE new == [op |-> op, job |-> job, step |-> 1, seen |-> {},
                       alone |-> op \in Writers /\ Writing = {}]
               old(u) == IF op \in Writers /\ u \in Writing THEN [req[u] EXCEPT !.alone = FALSE] ELSE req[u]
    <3>1. new \in Request
      BY DEF Idle, Request
    <3>2. \A u \in Slots : old(u) \in Request \cup {Idle}
      BY Clear, BusyRequest DEF Writing, Writers, Busy
    <3>3. req' = [u \in Slots |-> IF u = s THEN new ELSE old(u)]
      BY <2>1 DEF Arrives
    <3> HIDE DEF new, old
    <3>4. req' \in [Slots -> Request \cup {Idle}]
      BY <3>1, <3>2, <3>3
    <3> QED
      BY <2>1, <3>4 DEF Arrives
  <2>2. ASSUME NEW s \in Slots, Executes(s) PROVE TypeOK'
    <3> DEFINE r == req[s]
               e == Plan[r.op][r.step]
    <3>1. r \in Request /\ r.op \in Ops /\ r.step <= 4
      BY <2>2, BusyRequest, PlanLength DEF Executes, Left, Request
    <3>2. Sum(r.op, r.job) \in SUBSET Jobs
      BY <3>1 DEF Sum, Request
    <3>3. [r EXCEPT !.step = @ + 1, !.seen = IF e = "sum" THEN Sum(r.op, r.job) ELSE @] \in Request
      BY <3>1, <3>2, Step
    <3>4. req' = [req EXCEPT ![s] = [r EXCEPT !.step = @ + 1,
                                             !.seen = IF e = "sum" THEN Sum(r.op, r.job) ELSE @]]
      BY <2>2 DEF Executes
    <3> QED
      BY <2>2, <3>3, <3>4 DEF Executes
  <2>3. ASSUME NEW s \in Slots, Refused(s) \/ Victim(s) PROVE TypeOK'
    BY <2>3 DEF Refused, Victim
  <2>4. ASSUME NEW s \in Slots, RatingCommits(s) PROVE TypeOK'
    <3>1. req[s] \in Request
      BY <2>4, BusyRequest DEF RatingCommits, Commits, Busy, Writers
    <3>2. reviewed' \subseteq Jobs /\ settled' \in BOOLEAN
          /\ profile' \in [jobs : Nat, strikes : Nat, rating : SUBSET Jobs]
      BY <2>4, <3>1 DEF RatingCommits, Request
    <3> QED
      BY <2>4, <3>2 DEF RatingCommits, Commits
  <2>5. ASSUME NEW s \in Slots, CompletionCommits(s) PROVE TypeOK'
    <3>1. req[s] \in Request
      BY <2>5, BusyRequest DEF CompletionCommits, Commits, Busy
    <3>2. profile' \in [jobs : Nat, strikes : Nat, rating : SUBSET Jobs]
      BY <2>5 DEF CompletionCommits
    <3> QED
      BY <2>5, <3>1, <3>2 DEF CompletionCommits, Commits, Request
  <2>6. ASSUME NEW s \in Slots, StrikeCommits(s) PROVE TypeOK'
    <3>1. req[s] \in Request
      BY <2>6, BusyRequest DEF StrikeCommits, Commits, Busy, Strikers
    <3>2. profile' \in [jobs : Nat, strikes : Nat, rating : SUBSET Jobs]
      BY <2>6 DEF StrikeCommits
    <3>3. reported' \subseteq Jobs /\ struck' \subseteq Jobs
      BY <2>6, <3>1 DEF StrikeCommits, Request
    <3>4. status' \in [Jobs -> {"IN_PROGRESS", "COMPLETED", "CANCELLED", "NO_SHOW"}]
      BY <2>6, <3>1 DEF StrikeCommits, Request
    <3> QED
      BY <2>6, <3>2, <3>3, <3>4 DEF StrikeCommits, Commits
  <2>7. CASE UNCHANGED vars
    BY <2>7 DEF vars
  <2> QED
    BY <2>1, <2>2, <2>3, <2>4, <2>5, <2>6, <2>7 DEF Next, Handle
<1> QED
  BY <1>1, <1>2, PTL DEF Spec

(***************************************************************************)
(* The rating.                                                             *)
(***************************************************************************)

\* A writer that is alone has no other beside it, and what it has summed up is still
\* what its commit will leave.
AloneInv ==
  \A s \in Slots : req[s].alone =>
    /\ s \in Writing
    /\ \A u \in Writing : u = s
    /\ req[s].step > 2 => req[s].seen = Sum(req[s].op, req[s].job)

IInv == AloneInv /\ AloneRepairs

\* What a request that leaves the ratings alone may do to the others.
LEMMA OthersKeepAlone ==
  ASSUME TypeOK, IInv, NEW s \in Slots,
         req' = [req EXCEPT ![s] = Idle],
         reviewed' = reviewed, profile'.rating = profile.rating, settled' = settled
  PROVE  IInv'
<1>1. \A u \in Slots : u # s => req'[u] = req[u]
  BY DEF TypeOK
<1>2. req'[s] = Idle /\ Idle.alone = FALSE /\ Idle.op \notin Writers
  BY DEF TypeOK, Idle, Writers
<1>3. \A u \in Slots : u \in Writing' => u \in Writing /\ u # s
  BY <1>1, <1>2 DEF Writing
<1>4. AloneInv'
  <2> SUFFICES ASSUME NEW u \in Slots, req'[u].alone
               PROVE  /\ u \in Writing'
                      /\ \A v \in Writing' : v = u
                      /\ req'[u].step > 2 => req'[u].seen = Sum(req[u].op, req[u].job)'
    BY DEF AloneInv
  <2>1. u # s /\ req'[u] = req[u]
    BY <1>1, <1>2
  <2>2. u \in Writing' /\ \A v \in Writing' : v = u
    BY <2>1, <1>3 DEF IInv, AloneInv, Writing
  <2> QED
    BY <2>1, <2>2 DEF IInv, AloneInv, Sum
<1> QED
  BY <1>4 DEF IInv, AloneRepairs

\* The rating is that of the reviews after a writer that was alone, whatever writers
\* that crossed had made of it before.
THEOREM RatingRepaired == Spec => []AloneRepairs
<1>1. Init => IInv
  <2> SUFFICES ASSUME Init PROVE IInv
    OBVIOUS
  <2>1. \A s \in Slots : ~req[s].alone
    BY DEF Init, Idle
  <2> QED
    BY <2>1 DEF Init, IInv, AloneInv, AloneRepairs
<1>2. TypeOK /\ IInv /\ [Next]_vars => IInv'
  <2> SUFFICES ASSUME TypeOK, IInv, [Next]_vars PROVE IInv'
    OBVIOUS
  <2>1. ASSUME NEW s \in Slots, NEW op \in DOMAIN Plan, NEW job \in Jobs, Arrives(s, op, job)
        PROVE  IInv'
    <3>1. ~Busy(s) /\ UNCHANGED <<reviewed, profile, settled>>
      BY <2>1 DEF Arrives
    <3>2. req'[s].op = op /\ req'[s].step = 1
          /\ (req'[s].alone <=> (op \in Writers /\ Writing = {}))
      BY <2>1 DEF Arrives
    <3>3. \A u \in Slots : u # s =>
            /\ req'[u].op = req[u].op /\ req'[u].job = req[u].job
            /\ req'[u].step = req[u].step /\ req'[u].seen = req[u].seen
            /\ req'[u].alone => req[u].alone /\ ~(op \in Writers /\ u \in Writing)
      <4> SUFFICES ASSUME NEW u \in Slots, u # s
                   PROVE  /\ req'[u].op = req[u].op /\ req'[u].job = req[u].job
                          /\ req'[u].step = req[u].step /\ req'[u].seen = req[u].seen
                          /\ req'[u].alone => req[u].alone /\ ~(op \in Writers /\ u \in Writing)
        OBVIOUS
      <4>1. CASE op \in Writers /\ u \in Writing
        <5>1. req[u] \in Request
          BY <4>1, BusyRequest DEF Writing, Writers, Busy
        <5>2. req'[u] = [req[u] EXCEPT !.alone = FALSE]
          BY <2>1, <4>1 DEF Arrives
        <5> QED
          BY <5>1, <5>2 DEF Request
      <4>2. CASE ~(op \in Writers /\ u \in Writing)
        BY <2>1, <4>2 DEF Arrives
      <4> QED
        BY <4>1, <4>2
    <3>4. s \notin Writing /\ \A u \in Slots : u # s => (u \in Writing' <=> u \in Writing)
      BY <3>1, <3>3 DEF Writing, Busy, Writers
    <3>5. s \in Writing' <=> op \in Writers
      BY <3>2 DEF Writing
    <3>6. AloneInv'
      <4> SUFFICES ASSUME NEW u \in Slots, req'[u].alone
                   PROVE  /\ u \in Writing'
                          /\ \A v \in Writing' : v = u
                          /\ req'[u].step > 2 => req'[u].seen = Sum(req[u].op, req[u].job)'
        BY DEF AloneInv
      <4>1. CASE u = s
        BY <4>1, <3>2, <3>4, <3>5 DEF Writing
      <4>2. CASE u # s
        <5>1. req[u].alone /\ u \in Writing /\ op \notin Writers
          BY <4>2, <3>3 DEF IInv, AloneInv
        <5>2. \A v \in Writing' : v = u
          BY <5>1, <3>4, <3>5 DEF IInv, AloneInv, Writing
        <5> QED
          BY <4>2, <5>1, <5>2, <3>1, <3>3, <3>4 DEF IInv, AloneInv, Sum
      <4> QED
        BY <4>1, <4>2
    <3> QED
      BY <3>1, <3>6 DEF IInv, AloneRepairs
  <2>2. ASSUME NEW s \in Slots, Executes(s) PROVE IInv'
    <3> DEFINE r == req[s]
               e == Plan[r.op][r.step]
               new == [r EXCEPT !.step = @ + 1, !.seen = IF e = "sum" THEN Sum(r.op, r.job) ELSE @]
    <3>1. r \in Request /\ r.op \in Ops
      BY <2>2, BusyRequest DEF Executes, Left
    <3>2. req' = [req EXCEPT ![s] = new] /\ UNCHANGED <<reviewed, profile, settled>>
      BY <2>2 DEF Executes
    <3>3. /\ new.op = r.op /\ new.job = r.job /\ new.alone = r.alone /\ new.step = r.step + 1
          /\ new.seen = IF e = "sum" THEN Sum(r.op, r.job) ELSE r.seen
      BY <3>1 DEF Request
    <3> HIDE DEF new
    <3>4. req'[s] = new /\ \A u \in Slots : u # s => req'[u] = req[u]
      BY <3>2 DEF TypeOK
    <3>5. Writing' = Writing
      BY <3>3, <3>4 DEF Writing
    <3>6. r.alone /\ new.step > 2 => new.seen = Sum(r.op, r.job)
      <4> SUFFICES ASSUME r.alone, new.step > 2 PROVE new.seen = Sum(r.op, r.job)
        OBVIOUS
      <4>1. r.op \in Writers
        BY DEF IInv, AloneInv, Writing
      <4>2. CASE r.step = 2
        BY <4>1, <4>2, <3>3, PlanTable
      <4>3. CASE r.step > 2
        <5>1. r.step <= Len(Plan[r.op])
          BY <2>2 DEF Executes, Left
        <5>2. r.step \in 1..5 /\ Len(Plan[r.op]) = 3
          BY <4>1, <3>1, PlanTable DEF Request
        <5>3. r.step = 3
          BY <4>3, <5>1, <5>2
        <5>4. e = "profile"
          BY <4>1, <5>3, PlanTable
        <5> QED
          BY <4>3, <5>4, <3>3 DEF IInv, AloneInv
      <4> QED
        BY <4>2, <4>3, <3>1, <3>3 DEF Request
    <3>7. AloneInv'
      <4> SUFFICES ASSUME NEW u \in Slots, req'[u].alone
                   PROVE  /\ u \in Writing'
                          /\ \A v \in Writing' : v = u
                          /\ req'[u].step > 2 => req'[u].seen = Sum(req[u].op, req[u].job)'
        BY DEF AloneInv
      <4>1. req[u].alone /\ req'[u].op = req[u].op /\ req'[u].job = req[u].job
        BY <3>3, <3>4
      <4>2. u \in Writing' /\ \A v \in Writing' : v = u
        BY <4>1, <3>5 DEF IInv, AloneInv
      <4>3. Sum(req[u].op, req[u].job)' = Sum(req[u].op, req[u].job)
        BY <4>1, <3>2 DEF Sum
      <4>4. ASSUME req'[u].step > 2 PROVE req'[u].seen = Sum(req[u].op, req[u].job)
        <5>1. CASE u = s
          BY <4>1, <4>4, <5>1, <3>4, <3>6
        <5>2. CASE u # s
          BY <4>1, <4>4, <5>2, <3>4 DEF IInv, AloneInv
        <5> QED
          BY <5>1, <5>2
      <4> QED
        BY <4>2, <4>3, <4>4
    <3> QED
      BY <3>2, <3>7 DEF IInv, AloneRepairs
  <2>3. ASSUME NEW s \in Slots, Refused(s) \/ Victim(s) PROVE IInv'
    BY <2>3, OthersKeepAlone DEF Refused, Victim
  <2>4. ASSUME NEW s \in Slots, CompletionCommits(s) \/ StrikeCommits(s) PROVE IInv'
    <3>1. profile'.rating = profile.rating /\ UNCHANGED <<reviewed, settled>>
      BY <2>4 DEF CompletionCommits, StrikeCommits, TypeOK
    <3> QED
      BY <2>4, <3>1, OthersKeepAlone DEF CompletionCommits, StrikeCommits, Commits
  <2>5. ASSUME NEW s \in Slots, RatingCommits(s) PROVE IInv'
    <3>1. s \in Writing /\ req[s].op \in Writers
      BY <2>5 DEF RatingCommits, Commits, Writing
    <3>2. req[s] \in Request /\ req[s].step > 2
      BY <2>5, <3>1, BusyRequest, PlanTable DEF RatingCommits, Commits, Left, Busy, Writers, Request
    <3>3. /\ req'[s] = Idle /\ \A u \in Slots : u # s => req'[u] = req[u]
          /\ Idle.alone = FALSE /\ Idle.op \notin Writers
      BY <2>5 DEF RatingCommits, Commits, TypeOK, Idle, Writers
    <3>4. \A u \in Slots : ~req'[u].alone
      BY <3>1, <3>3 DEF IInv, AloneInv
    <3>5. AloneRepairs'
      <4> SUFFICES ASSUME settled' PROVE profile'.rating = reviewed'
        BY DEF AloneRepairs
      <4>1. req[s].seen = Sum(req[s].op, req[s].job)
        BY <2>5, <3>2 DEF RatingCommits, IInv, AloneInv
      <4>2. profile'.rating = req[s].seen /\ reviewed' = Sum(req[s].op, req[s].job)
        BY <2>5, <3>1 DEF RatingCommits, TypeOK, Sum
      <4> QED
        BY <4>1, <4>2
    <3> QED
      BY <3>4, <3>5 DEF IInv, AloneInv
  <2>6. CASE UNCHANGED vars
    BY <2>6 DEF vars, IInv, AloneInv, AloneRepairs, Writing, Sum
  <2> QED
    BY <2>1, <2>2, <2>3, <2>4, <2>5, <2>6 DEF Next, Handle
<1>3. IInv => AloneRepairs
  BY DEF IInv
<1> QED
  BY <1>1, <1>2, <1>3, TypeCorrect, PTL DEF Spec

(***************************************************************************)
(* Deadlocks.                                                              *)
(***************************************************************************)

\* What a transaction may still want once it holds a row.
After(e, op, f) ==
  CASE e = "profile" -> op \in Strikers /\ f = "booking"
    [] e = "booking" -> op = "complete" /\ f = "profile"
    [] e = "strike"  -> f \in {"profile", "booking"}
    [] e = "report"  -> f \in {"strike", "profile", "booking"}
    [] e = "review"  -> f \in {"sum", "profile"}

LEMMA PlanOrder ==
  ASSUME NEW op \in Ops, NEW n \in 1..5, n <= Len(Plan[op]), NEW m \in 1..(n - 1), Plan[op][m] # "sum"
  PROVE  /\ Plan[op][m] \in {"profile", "booking", "strike", "report", "review"}
         /\ After(Plan[op][m], op, Plan[op][n])
<1>1. CASE op \in Writers
  <2>1. n <= 3 /\ m # 2
    BY <1>1, PlanTable
  <2>2. m = 1 /\ n \in {2, 3}
    BY <2>1
  <2> QED
    BY <1>1, <2>2, PlanTable DEF After
<1>2. CASE op = "complete"
  <2>1. m = 1 /\ n = 2
    BY <1>2, PlanTable
  <2> QED
    BY <1>2, <2>1, PlanTable DEF After
<1>3. CASE op = "cancel"
  <2>1. <<m, n>> \in {<<1, 2>>, <<1, 3>>, <<2, 3>>}
    BY <1>3, PlanTable
  <2> QED
    BY <1>3, <2>1, PlanTable DEF After, Strikers
<1>4. CASE op = "confirm"
  <2>1. <<m, n>> \in {<<1, 2>>, <<1, 3>>, <<1, 4>>, <<2, 3>>, <<2, 4>>, <<3, 4>>}
    BY <1>4, PlanTable
  <2> QED
    BY <1>4, <2>1, PlanTable DEF After, Strikers
<1> QED
  BY <1>1, <1>2, <1>3, <1>4 DEF Ops, Writers

\* The row that a request wants next.
NextRow(s) == Plan[req[s].op][req[s].step]

\* Whoever is waited for, and waits itself, wants a row that comes later in its plan.
LEMMA WaitsForLater ==
  ASSUME TypeOK, NEW s \in Slots, NEW u \in Slots, WaitsFor(s, u), Left(u)
  PROVE  /\ NextRow(s) \in {"profile", "booking", "strike", "report", "review"}
         /\ After(NextRow(s), req[u].op, NextRow(u))
         /\ NextRow(s) = "booking" => req[u].job = req[s].job
<1>1. req[s].op \in Ops /\ req[u].op \in Ops /\ req[u] \in Request
  BY BusyRequest DEF WaitsFor, Left
<1>2. PICK m \in 1..(req[u].step - 1) :
        /\ Plan[req[u].op][m] # "sum"
        /\ Row(req[s].op, req[s].job, req[s].step) = Row(req[u].op, req[u].job, m)
  BY DEF WaitsFor, Holds, Wants
<1>3. Plan[req[u].op][m] = NextRow(s) /\ (NextRow(s) # "profile" => req[u].job = req[s].job)
  BY <1>2 DEF Row, NextRow
<1>4. req[u].step \in 1..5 /\ req[u].step <= Len(Plan[req[u].op])
  BY <1>1 DEF Left, Request
<1> QED
  BY <1>1, <1>2, <1>3, <1>4, PlanOrder DEF NextRow

\* Every deadlock has a completion and a strike for the same booking in it.
THEOREM CompletionInEveryDeadlock == Spec => []OnlyCompletionDeadlocks
<1>1. TypeOK => OnlyCompletionDeadlocks
  <2> SUFFICES ASSUME TypeOK, NEW D \in SUBSET Slots, D # {}, Cycle(D)
               PROVE  \E s, u \in D : /\ req[s].op = "complete" /\ req[u].op \in Strikers
                                      /\ req[s].job = req[u].job
    BY DEF OnlyCompletionDeadlocks
  <2> DEFINE Goal == \E s, u \in D : /\ req[s].op = "complete" /\ req[u].op \in Strikers
                                     /\ req[s].job = req[u].job
  <2>1. \A s \in D : \E u \in D : WaitsFor(s, u) /\ Left(u)
    BY DEF Cycle, WaitsFor
  <2>2. ASSUME NEW s \in D, NextRow(s) = "profile" PROVE Goal
    <3>1. PICK u \in D : WaitsFor(s, u) /\ Left(u)
      BY <2>1
    <3>2. req[u].op \in Strikers /\ NextRow(u) = "booking"
      BY <2>2, <3>1, WaitsForLater DEF After
    <3>3. PICK v \in D : WaitsFor(u, v) /\ Left(v)
      BY <2>1
    <3>4. req[v].op = "complete" /\ req[v].job = req[u].job
      BY <3>2, <3>3, WaitsForLater DEF After
    <3> QED
      BY <3>2, <3>4
  <2>3. ASSUME NEW s \in D, NextRow(s) = "booking" PROVE Goal
    <3>1. PICK u \in D : WaitsFor(s, u) /\ Left(u)
      BY <2>1
    <3>2. NextRow(u) = "profile"
      BY <2>3, <3>1, WaitsForLater DEF After
    <3> QED
      BY <2>2, <3>2
  <2>4. ASSUME NEW s \in D, NextRow(s) = "strike" PROVE Goal
    <3>1. PICK u \in D : WaitsFor(s, u) /\ Left(u)
      BY <2>1
    <3>2. NextRow(u) \in {"profile", "booking"}
      BY <2>4, <3>1, WaitsForLater DEF After
    <3> QED
      BY <2>2, <2>3, <3>2
  <2>5. ASSUME NEW s \in D, NextRow(s) \in {"report", "review"} PROVE Goal
    <3>1. PICK u \in D : WaitsFor(s, u) /\ Left(u)
      BY <2>1
    <3>2. NextRow(u) \in {"strike", "profile", "booking", "sum"}
      BY <2>5, <3>1, WaitsForLater DEF After
    <3>3. PICK v \in D : WaitsFor(u, v) /\ Left(v)
      BY <2>1
    <3>4. NextRow(u) # "sum"
      BY <3>3, WaitsForLater
    <3> QED
      BY <2>2, <2>3, <2>4, <3>2, <3>4
  <2>6. PICK s \in D : TRUE
    OBVIOUS
  <2>7. NextRow(s) \in {"profile", "booking", "strike", "report", "review"}
    BY <2>1, WaitsForLater
  <2> QED
    BY <2>2, <2>3, <2>4, <2>5, <2>7
<1> QED
  BY <1>1, TypeCorrect, PTL
=============================================================================
