# UGNAY API: verification project

TLA+ models of the server in `src/`: the booking engine of a two-sided marketplace
(customers book workers, administrators verify and sanction them), TLC configurations
that check the models on small instances, and TLAPS proofs of the properties that
matter most for instances of every size.

## The system

A NestJS server over PostgreSQL (Prisma). Every HTTP request is a handler that alternates
`await`s (database queries) with code; handlers interleave at each `await`. All shared
state is in the database; several processes may serve it, so nothing in memory is relied
on for correctness. Cron jobs (`@nestjs/schedule`) run beside the requests. Pushes go out
through Expo and are best effort.

| Component | State it keeps | Operations that change it | What makes it correct |
|---|---|---|---|
| Bookings (`src/src/modules/bookings`) | `bookings`, with a partial unique index on a worker's active booking; `no_show_reports` | create, update, accept, reject, start, complete, cancel, report a no-show; jobs: expire pending requests (every minute), cancel stale accepted bookings (every hour) | one active booking per worker; statuses follow their life cycle; nobody waits for ever; notices are true |
| Sanctions (`modules/admin`, `common/utils/strike.util.ts`) | `strikes`, `worker_profiles.strikeCount` and `.status`, `users.status` | strike, resolve a no-show, suspend, unsuspend, reinstate | a strike goes with what it punishes; the threshold suspends; account and profile agree |
| Availability (`modules/workers`) | `worker_profiles.isOnline` | go online, go offline | only verified workers are booked |
| Identity verification (`modules/workers`, `modules/admin`) | `verification_docs`, `worker_profiles.status` | submit, approve, reject | the status rests on a document; one reapplication |
| Credentials (same) | `worker_credentials` | upload, approve, reject | the cap on active ones is passed by no more than what was in flight |
| Authentication (`modules/auth`) | `otp_requests`, `refresh_tokens`, `users` | send and verify a code, register, refresh, revoke; purge jobs | a code is used once, within its time and attempts; a token has one successor; a revoked family stays revoked |
| Reviews (`modules/reviews`, `modules/admin`) | `reviews`, a worker's average and count | create, delete | the aggregate is that of the rows once writers no longer cross |
| Push notifications (`modules/notifications`) | `push_tokens`, `push_tickets` | register, remove, send; receipt job (every quarter of an hour) | dead tokens go, live ones come back; tickets do not pile up |
| Uploads (`src/uploads`, `file-storage.service.ts`, `scripts/`) | files on disk and the rows that name them | write, remove, serve, encrypt old files | a row's file exists and is readable; nothing is left behind; nothing stays plaintext |
| Reference data (`modules/barangays`, `modules/categories`) | `barangays`, `categories` | synchronise with PSGC, edit | codes and names are unique; the list published is the list kept |
| Profiles (`modules/customers`, `modules/workers`) | personal data, `worker_service_areas` | edit | a worker always has an area |
| Authorisation, configuration | none | - | - |

How they interact: the booking handlers read `users` and `worker_profiles`, which the
sanctions and the verification write; cancelling by a worker and resolving a no-show
write `strikes` and the profile in the transaction that closes the booking; a completed
booking admits one review; every handler and job ends in a call of the notifications,
whose failure is swallowed.

What is hard: each handler checks what it read some `await`s ago and then writes. Most
writes of a booking repeat the status in their `where` (`updateMany` and a count), some
do not; administrators' verdicts are read outside the transaction that writes them; the
jobs are three statements that requests run between, and that a restart cuts short.

## Modules

| Module | What it is |
|---|---|
| `Bookings` | the booking engine: bookings, reports, strikes, availability, suspension, both cron jobs, deadlines, restarts |
| `BookingLifecycle` | what a booking goes through, whoever acts: the abstract specification `Bookings` implements |
| `BookingPhases` | what time and the two jobs do to one booking: the abstract specification that `Bookings` and `BookingClock` both implement |
| `MCBookings`, `MCBookings_*.cfg` | instances for TLC |
| `BookingsProofs` | theorems about `Bookings`, its refinement of `BookingLifecycle` and `BookingPhases` among them |
| `WorkerVerification` | the verification of one worker against reviews and sanctions |
| `MCWorkerVerification`, `MCWorkerVerification_*.cfg` | instances for TLC |
| `WorkerVerificationProofs` | theorems about `WorkerVerification` |
| `Sessions` | the refresh tokens of one user: login, rotation, reuse, revocation, purge |
| `SessionPromise` | a session goes on until it is closed, once: the abstract specification `Sessions` implements |
| `MCSessions`, `MCSessions_rotation.cfg` | the instance for TLC |
| `Otp` | the one-time codes of one phone number and the account they open |
| `MCOtp`, `MCOtp_*.cfg` | instances for TLC |
| `OtpProofs` | theorems about `Otp` |
| `SessionsProofs` | theorems about `Sessions`, the refinement among them |
| `BookingClock` | the dates and windows of one booking, in half hours and Philippine time, against both jobs |
| `WorkerRow` | the transactions that write one worker's profile, statement by statement, with row locks: reviews, completions, strikes |
| `Uploads` | the files of one worker on disk and the rows that name them; credentials; the encryption script |
| `Push` | tokens, tickets and receipts of push notifications |
| `Places` | barangays and their synchronisation; the service areas of a worker |
| `MCBookingClock`, `MCWorkerRow`, `MCUploads`, `MCPush`, `MCPlaces` | instances for TLC |
| `CronProofs` | theorems about `BookingClock`, its refinement of `BookingPhases` among them, and about `Push` |
| `WorkerRowProofs`, `UploadsProofs`, `PlacesProofs` | theorems about the others |

### How state and actions correspond to the code

A request occupies a **slot** (`req[s]`): who sent it, which operation, which rows, and
the step it has reached. `Arrive` is the authorisation (`findActiveUser`,
`assertWorkerProfileActive`) or the read of an assertion; a second step reads the booking
(`findOwnedBooking`, `assertBookingInStatus`); the last one is the write. Between any two
of them every other slot, both jobs, time and a restart may act. The two reads of the
authorisation are one step: account and profile change together, so no order of the two
sees more.

Each single statement is atomic. A `$transaction` of `Bookings` is one step: it takes row
locks that it keeps to its end, and what it depends on is a guarded `updateMany`, a
unique index or a row it has locked (the strike count is read after its own increment),
so its effect is that of running at its commit. `rejectVerification` is different: it
*counts* rows it does not lock, so in `WorkerVerification` the count is a step of its own.

In `Bookings` the handlers of a booking are `Accept`, `Reject`, `Start`, `Complete`,
`CancelByCustomer`, `CancelByWorker`, `Update`, `ReportNoShow` and
`ReportCustomerNoShow`, all entered through `ActionArrives` and `ActionReads`
(`prepareBookingAction`); `ActionConflicts` is every 409 they answer. `create` is four
steps: two checks, the insert under the index, or its refusal (P2002). The guarded
updates are the conjunct `Matches`; `Update` has none, as in the code. `ApplyStrike` is
`applyStrike`. The administrators' `Dismiss`, `ConfirmNoShow` and
`ConfirmCustomerNoShow` write whatever became of the report since `ResolveArrives`.
The jobs are `Finds`, `Updates`, `Notifies`; `Batch` is `take: 100` without an order.

Time is the row `clock[b]`: whether `expiresAt` has passed, and the phase of the no-show
window ("before" its end, "open" for two hours of reports, "closed", "stale" a day later).
`Expires` and `WindowAdvances` move it; a booking may be made for a window that is already
open or closed, as the validation of the date allows. `Update` may choose such a window too,
and turn a closed one stale: `update()` validates a date only when the request carries one,
so the window alone may still be moved to an earlier one on a day that is over. `MayGoStale`
is what both ways into the stale phase need. `Crash` empties the slots and the jobs and
keeps the tables. The profile and the account of a worker start as those of a verified
worker.

`BookingPhases` is one booking as the jobs see it: its `standing`, whether its half hour is
over, the phase of its window, and whether a run of the sweep has looked it up and not yet
updated it (`listed`). Its actions are what the parties, time, `update()` and the two jobs
may make of that, in any order. `Bookings` maps its rows, its `clock` and the sweep's list
to it; `BookingClock` computes both deadlines from dates and has no list, as its jobs take
no time. Its `Update` keeps a date without validating it, as the code does, and validates only
a new one. So the phases `Bookings` is given are phases that dates can produce, and each
model leaves to the other what it abstracts from.

In `WorkerVerification` a profile, an account and the documents of one worker meet any
number of submissions, reviews, suspensions and reinstatements in flight. `ruling` is a
history variable: what was last decided about the worker's conduct.

In `Sessions` a slot holds a login between the check of the account and the insert, or a
refresh between the checks of `verifyRefreshToken`, the read of the row and the
transaction that revokes and replaces it. `RefreshArrives` sends any token ever issued.
`revokeTokensWhere` over many rows is two steps, `RevokeSees` and `RevokeWrites`: at READ
COMMITTED an UPDATE does not see rows committed after it began, so the successor that a
rotation inserts meanwhile survives it - the session then simply goes on. A signature is
its token's identity and `expired`, which stands for the `exp` of the JWT and the
`expiresAt` of the row, written together. `parent` and `login` are history variables.

In `Otp` the transaction of `createOtp` is three steps - it counts, it begins the UPDATE
(`SendInvalidates` keeps what that statement sees), it commits - because concurrent ones
miss each other's rows at READ COMMITTED; then the message goes out or fails and the row
is deleted. A verification is the read of the newest open row, the guarded update and
the look at the account; a guess is right or wrong by choice. `register` is the check of
its token and one transaction, which locks the row and inserts under the unique phone. Its
failure, 401 or 409, leaves nothing behind. Codes are numbered in the order of
`createdAt`. A login ends where `LoginArrives` of `Sessions` begins. `uses` is history.

`BookingClock` derives what `Bookings` has as phases. Time is a number of half hours:
every duration of the code is a multiple of that. `booking.date` is the instant the
customer sends, `ToPhtDay` and `WindowEnd` are `toPhtDayMs` and `getTimeWindowEndUtcMs`,
`ValidDate` is `assertScheduledDateIsValid`, `Report` has the bounds of
`assertNoShowWindowOpen`, `Stale` both filters of the sweep: the coarse one of the query
on the date and the precise one on the window. Requests take no time here - their races
are in `Bookings` - and what ends a booking for the parties is one status, `ENDED`. The
jobs that fall on an instant must run or be missed before time goes on (`due`, `missed`).
Its definitions and those of `Push`, the two modules about cron jobs alone, have different
names, as `CronProofs` extends both.

`WorkerRow` opens up what are single steps elsewhere. `Plan` is the order in which each
transaction writes its rows; a slot holds the rows of the statements it has executed
until `Commits`, and waits where another one holds what it `Wants`. `Admits` is what a
statement requires of the committed row once it has the lock. The aggregate over the
reviews ("sum") locks nothing and sees its own review and what is committed. A rating is
named by the set of reviews it is the average of. `Victim` is PostgreSQL's deadlock
detection; it may choose any of the transactions in the cycle.

In `Uploads` a file is a key (the uuid of its name) and a part. A submission writes two
files at once and waits for both; a failed write ends the request while the other write
goes on. Then the transaction counts (`Checks`) and inserts; refused or rolled back, it
removes the files (`Unlinks`), and a failure of that is swallowed. A verdict on a
credential is read before its transaction and written by id. `Content` says what a
reader would find: `plain` and `sealed` are what the worker sent, `torn` a prefix,
`garbled` the encryption of a prefix. `Serve` is `readDecrypted` after
`assertCanReadProtectedFile`. The script of `scripts/encrypt-existing-uploads.ts` walks
one directory after the other and rewrites each plaintext file in place: `ScriptTruncates`
and `ScriptRewrites` are the two halves of `writeFile`, between which it may be killed.
`ScriptKilled` also stands for a `readFile` or `writeFile` that throws, which ends the script
with exit 1. `ScriptListFails` is the `readdir` whose failure `walk` turns into an empty listing:
the script goes on, prints "Done" and exits 0; `unlisted` is the history of those directories.
`--dry-run` writes nothing and is not modelled.
It runs with the server stopped: `ScriptStarts` waits for idle slots and no request
arrives meanwhile. `spoilt` is history: the uploads that met a failure, which are the
ones a property may except. `faults` bounds failures of all kinds.

In `Push` a slot registers a token (read, then upsert) or sends to the tokens of a user:
Expo answers with a ticket or an error for each, dead tokens are deleted one by one,
tickets are stored. The job takes a batch, fetches what receipts there are, deletes the
token of each receipt that says so - whoever has it by then - then the tickets resolved,
then those older than a day, by the cutoff taken at its start. Devices go and come back.

In `Places` a synchronisation holds what is left of its list and the row it found for the
entry at hand; runs of two administrators, or of the seed, interleave at every statement.
`WriteConflicts` is P2002 on code or name; nothing written before it is undone. An update
of the service areas deletes what its DELETE saw, waits for rows another update has
deleted or inserted, inserts and commits. `settled` and `alone` are history: whether
other updates or runs crossed this one.

## What is checked

| Run | Instance | Shows |
|---|---|---|
| `bookings_engine` | 1 customer, 1 worker, 1 booking, 2 slots, both jobs, 1 restart, all requests on a booking and both verdicts, all time phases, suspension at the first strike | `TypeOK`, `JobsCounted`, `StruckIffWorkerCancelled`, `VerdictHasGround`, `ExpiryNoticeTruthful`, and `FollowsLifecycle`, the refinement of `BookingLifecycle` and, for each booking, of `BookingPhases` |
| `bookings_sanctions` | 2 bookings, 1 worker, 2 slots, threshold 2 | `OneActiveBookingPerWorker`, `ThresholdSuspends`, `StrikesBackCount`, `AccountAndProfileAgree` |
| `bookings_live` | 2 workers, 2 bookings, 1 slot, a batch of 1, 1 restart, fairness | `PendingIsAnswered`, `AcceptedMovesOn` |
| `verification_review` | 3 documents, 3 slots, two rejections allowed | `TypeOK`, `StatusHasGround`, `PendingIsUnderReview` |
| `session_rotation` | 3 tokens, 2 slots, restarts | `Lineage`, `OneSuccessor`, `OneLivePerLogin`, and the refinement `ClosedStaysClosed` |
| `otp_codes` | 3 codes, 2 slots, one code an hour, two attempts, restarts | `CodesTypeOK` (attempts stay within the cap), `AcceptedOnce`, `LockedForGood`, `HourlyOvershoot`, `RegistrationRestsOnCode`, `AccountKeepsOrigin` |
| `suspension_overwritten` | violation | a submission or approval in flight undoes a suspension (comment in `admin.service.ts`) |
| `uploads` | 2 documents, 3 credentials, 1 avatar, one document and one credential older than encryption, 2 slots, cap 1, one rejection allowed, one failure of any kind | `TypeOK`, `RowsReadable`, `NothingLeftBehind`, `CapOvershoot`, `NoPlaintextLeft` |
| `worker_row` | 2 jobs, 3 transactions | `TypeOK`, `AloneRepairs`, `OnlyCompletionDeadlocks` |
| `push` | 1 user, 1 token, 2 tickets, 2 slots, batch 1, one failure, fairness | `TypeOK`, `TicketsDrain`, `ReachableAgain` |
| `places` | 2 rows, 2 codes, 2 names, 2 synchronisations, 2 updates, at most 1 area | `PlacesTypeOK` (unique codes and names), `AreasBounded`, `FeedListed` |
| `booking_clock` | made at 8:00, 15:30 or 23:00 Philippine time, up to a day ahead, one missed run | `KeepsDeadlines` |

**Bounds.** A booking's row depends on other bookings only through its worker (the index,
the strike count), so one booking suffices where a single row is at stake and two where
they compete. Two slots are the two requests of every race; the jobs are further actors of
their own. Three slots in the verification let two reviews cross a submission. Three
tokens are two logins and a rotation, or a token and two candidates to replace it.
Three codes pass an hourly limit of one with two requests in flight. The
threshold (3 in the code) is 1 or 2, so that it is reached. `Operations`, `Windows` and
`Reasons` say what clients of an instance send and how far its time runs; each run leaves
out only what its properties cannot see. `bookings_live` has two bookings and a batch of one, so
both jobs meet a backlog larger than their batch; with one slot its requests cross the jobs and
the restart, and not each other, which is what `bookings_engine` has two slots for. Symmetry
is used over slots, bookings, documents, tokens, keys, jobs and the names of
`places`, never in a run with liveness.

Three transactions in `worker_row` allow every cycle of waits (of two or three) and two
writers of reviews beside a strike. One failure in `uploads` is enough for each property,
which are about what one failure may spoil; the proofs cover any number. Two tickets with
a batch of one are a backlog. `push` has one user, as a second one passes what TLC does in
minutes: that a token never passes from one account to another is the theorem
`RegistrationsKept`, for any number of users. Two rows and two entries in `places` are enough for an
entry to match two rows, one by its code and one by its name. In `booking_clock`
`MaxAdvance` is one day instead of seven: dates beyond tomorrow only repeat the times of
day, `Starts` puts the request before, between and after the ends of the windows, and
`MaxTime` lies beyond the last deadline of any of them.

**Deadlock** is checked in every run but `booking_clock`, where the clock stops once nothing
of the booking depends on it (`Awaited`) or at `MaxTime`.

**Fairness** (`FairSpec`): a request that was taken is served to its end (`Serve(s)`; Node
runs every callback, PostgreSQL answers), both jobs are called again and again
(`@Cron`), and time passes. No client is assumed to send anything.
The expiry and stale jobs are assumed not to overlap with themselves. `FairSpec` of `Push`
is the same: requests are served, the job is called, days pass; nothing is asked of Expo,
which may never have a receipt, nor of users. `ReachableAgain` names what it needs of the
app in its hypothesis: that it keeps registering its token, as it does at each start.

**AccountAndProfileAgree** is about workers whose verification is over, as those of
`Bookings` are; the run `suspension_overwritten` shows that a submission still open can
undo a suspension, which is the reason the comment of `setUserSuspension` does not hold.

### Where the code and its documents disagree

`suspension_overwritten` is checked as a violation. The following were met while modelling;
the actions have the behaviour of the code, and the properties are about what it does keep. A
property of this list that holds shows the weaker bound it states, and not that of the document:

* "At most 5 OTPs per hour" (AUTH-05, `docs/UGNAY_BRD.md:158`, `:341`; "implemented and
  verified" by `docs/PROJECT_STATUS.md:85`): the transaction of `createOtp` counts and then
  inserts at READ COMMITTED, so requests for one phone that count together all send.
  `HourlyOvershoot` is what is kept: the limit plus one for every other request in flight. The
  run `otp_codes` has states with more codes in the hour than the limit.
* "Maximum 5 active credentials" and "capped at 5" (`docs/UGNAY_API_HANDOUT.md:843`, `:866`):
  uploads that count together both insert, and a credential rejected while another verdict on it
  is in flight can become active again after its place was taken. `CapOvershoot` is the bound,
  again the cap plus one for every other request in flight, and `uploads` passes the cap.
* "All active sessions are immediately revoked" (AUTH-11, `docs/UGNAY_BRD.md:164`): a rotation
  that commits while the UPDATE of the revocation runs leaves a token that the UPDATE did not
  see (`RevokeSees`, `RevokeWrites`); that session goes on. `ClosedStaysClosed` says only that
  a session without a working token never has one again, not that a revocation closes all.
* A rating is "updated atomically" and a deletion "atomically recalculates" it
  (`docs/UGNAY_API_HANDOUT.md:1292`, `:1687`): the aggregate is read at READ COMMITTED without a
  lock, so of two writers that cross the later to write the profile may not have seen the other's
  review, and the rating stays wrong until the next writer. `AloneRepairs` is about a writer that
  was alone.
* `encrypt-existing-uploads.ts` prints "Done" and exits 0 when a directory could not be listed
  (`.catch(() => [])`, line 16), with that directory still in plaintext. `NoPlaintextLeft` and
  `PlaintextGone` except the directories whose listing failed, which nothing of the script's
  output tells apart from empty ones.
* `accept()` does not look at `expiresAt`, so a request whose 30 minutes are over
  (BR-08) can be accepted until the expiry job has run. `AnsweredInTime` is the bound.
* `update()` checks the status and then writes by id: the schedule of a booking accepted in
  between moves, against the handout's "before the worker responds" (line 1126).
* The sweep skips every booking with a report, dismissed ones too, against BKG-11
  ("under active no-show review"). `AcceptedMovesOn` and `FreesWorker` except complaints.
* Its coarse filter, `scheduledDate < now - 24 h`, compares the instant the customer sent,
  at any time of the day: for a morning window and a date just before midnight the sweep
  comes up to twelve hours after the day of grace. `SweptAfterGrace` says it never comes
  before.
* A booking may be made for a window of today that is over, and after two hours nobody can
  report a no-show on it. "7 calendar days" is now + 7 x 24 h.
* Two administrators who reject the same submission suspend the worker after a single
  rejected document, against WRK-05: `RejectCounts` counts the other one's rejection.
* A registration token needs its code's row unexpired (`Consumable`), so it works for at
  most five minutes of the fifteen of AUTH-09.

## What is proved

For every number of accounts, bookings, slots, documents, tokens and codes, every threshold
and batch:

* `TypeCorrect` (`BookingsProofs`): `Spec => []TypeOK`. `TypeOK` is inductive together with
  `CreatedByCustomers` - a creation in flight comes from a customer - as the inserted row
  takes its customer from the slot.
* `OneActiveBooking`: at most one active booking per worker. The insert is the only step
  that makes a booking active, and the index has just found no other row; every other
  step satisfies `NoNewActive`. The two checks before the insert play no part.
* `StruckOutAreSuspended`, `SuspendedAccountsDoNotWork`: the two invariants about
  sanctions, proved together (`Sanctions`), with one lemma for the steps that leave
  accounts alone and one for `ApplyStrike`.
* `StrikesMatchCancellations`, `VerdictsHaveGround`, `EvidenceLasts`, `NoticesTruthful`
  (`BookingsProofs`): lemma `RowSteps` says what any step may do to one booking, its report
  and its strike (`RowStep`: created, answered, cancelled by its worker, reported, ruled on,
  ...). `Consistent` is inductive. Its part `Sound` ties the three rows of a booking to each
  other - a report needs an acceptance, a strike of the system a cancellation by the worker.
  Its part `Justified` is what a request in flight has read and may still rely on when it
  writes: an administrator's verdict writes without a second look, so the report it was
  read with must stay of its kind, and a report's insert must find the booking accepted.
  `EvidenceLasts` is why it may: parties, acceptance, kind of report and strike never change
  once there (`RowLasts`). An expired booking was never accepted, so no verdict reopens it
  and what its customer was told stays true (`ExpiredForGood`).
* `KeepsLifecycle`: `Spec => FollowsLifecycle`. For the life cycle, a request moves one
  booking (`OneAtATime`, `OneBookingFollows`), a job all that it found (`MovesTogether`). The
  difficult step is a verdict on a booking that another verdict has closed: a closed booking
  carries a strike or a report of the other kind, so the second one conflicts or writes what
  is there.
  For the phases (`PhaseStep`), `ClockStep` lists what any step may do to the deadlines of a
  booking, and no request expires one or cancels it for the system (`OnlyJobsEnd`). What the
  expiry job has in hand is overdue and stays so until it is updated (`FoundOverdue`), since
  nothing sets `expiresAt` back.
* `JobsComeInTime`: a booking that a job ended is past the half hour of its request, from the
  phases alone (`Timely`, `TimelyStep`): a stale window and a booking on the sweep's list are
  behind it, and `update()`, which may move the window of a listed booking, leaves it so.
* `JobsAreCounted`, `StrikesAreBacked`: only `complete` sets `completedAt` and adds to the
  counter (`OnlyCompleteCompletes`, `StepsCount`), and a strike adds one to the count of the
  worker it is inserted for, on a booking that had none; strikes are never removed
  (`StrikesLast`), so resets and suspensions keep the bound.
* `VerificationTypeCorrect`, `Grounded`, `UnderReview` (`WorkerVerificationProofs`): types
  need that a review in flight names a document (`ReviewsNameDocuments`) and that the
  documents are finitely many; the other two follow because a profile and the document its
  status rests on are written in one commit.
* `SpentForGood`, `ExchangedOnce`, `OneWorkingToken`, `KeepsPromise` (`SessionsProofs`):
  lemma `ThreeKinds` reduces every step to one that only spends tokens, an issue or a
  rotation. `Lineage` is inductive: a token that has a successor is spent and no purge or
  revocation makes it live. As a rotation finds its token live (the count of the
  transaction), it has no successor yet, and the one working token of its login moves.
  `KeepsPromise` is `Spec => Promise!Spec`: an issue opens a session, a rotation leaves
  all sessions as they are, a spending step closes some.
* `AttemptsCapped`, `CodeUsedOnce`, `LockedCodesStayLocked` (`OtpProofs`): the types hold
  the cap, by the guard of the increment. `Accounted` is inductive: the history says what
  the row says, a draft has one transaction that inserts it (so no row is reset), and a
  request past the acceptance has its use; hence the acceptance finds none yet.
* `AccountsRestOnCodes`, `AccountsKeepOrigin`, `HourNearlyKept` (`OtpProofs`): lemma `RowsAge`
  says what any step may do to a row, so a code that has been used up stays so (`SpentStays`)
  and an account keeps the code it was made with (`AccountMade`). For the hour, what counts
  and what is drafted together (`FewRecent`) grow only at a count, which has just found fewer
  than the limit, and every draft is in a slot of its own.
* `DeadlinesKept` (`CronProofs`), for any advance, any instant and any number of
  missed runs. The inductive invariant says for each job how late the booking may be when
  the job is due, and when it has just been (`Answered`, `Swept`, which counts missed
  runs); the arithmetic is in the lemmas that `ToPhtDay` is the midnight at or before its
  instant, less than a day away, and that a window ends within 21 hours of it.
* `PhasesFollow` (`CronProofs`) is what `Bookings` takes for granted of its phases: a
  booking is stale only after its half hour for an answer (the guard of `WindowAdvances`),
  and no date that can be asked for is stale at once (`CreateInserts` chooses no stale
  window, `Update` only where the window was closed). The day of a booking does not end
  before it is made (`CreatedBefore`).
* `ClockKeepsPhases` is `ClockSpec => FollowsPhases`: half an hour moves a window by one phase
  at most (`PhaseMoves`), as each phase lasts longer, and a date that can be asked for gives a
  fresh one (`FreshPhase`). A booking that keeps its date and changes its window becomes stale
  only from a closed one (`OtherWindow`), as the windows of one day end within nine hours of each
  other (`WindowsOfOneDay`), less than the day of grace.
* `MessagesTypeCorrect`, `TicketsKept`, `RegistrationsKept` (`CronProofs`): types, with the
  bound on the receipt job's batch; no ticket leaves the table but by a receipt that was
  handled or a day later; and no token ever passes from one account to another, nor goes but
  by its user, by Expo's refusal or by a receipt of a ticket for that token. `MessagesInv`
  says what a run of the job and a send in flight hold and may rely on after an `await`.
* `RatingRepaired` (`WorkerRowProofs`): while a writer of the rating is alone nobody else
  changes the reviews, so what it has summed up is what its commit leaves (`AloneInv`).
* `CompletionInEveryDeadlock`: `PlanOrder` lists what a transaction may want after each row
  it holds. In a cycle whoever is waited for waits itself, so the rows wanted come later
  and later until one wants the profile; its holder is then a strike that wants the
  booking, and that one's holder the completion.
* `AreasKept`, `SynchronisationListed` (`PlacesProofs`): an update that is alone has seen all
  areas there are (`UpdatesInv`). A synchronisation that is alone has put in the table all
  it has dealt with (`RunsInv`): a later entry never takes the row of an earlier one, because
  a list names no code and no name twice and both are unique in the table (`TypeCorrect`).
* `NamedFilesReadable`, `OrphansMetAFailure`, `PlaintextGone`, `CapNearlyKept`
  (`UploadsProofs`): `FilesInv` ties rows, disk and requests: a key is in one request at
  most, a row is named only after both files are written, what is neither named nor in a
  request is absent or spoilt, and the script runs alone. `PlaintextGone` adds that while
  the script runs a plain file is still on its list, in its hands, in a directory to come or in one
  whose listing failed.
  For the cap, `Claimed` - active, let in, or with an approval on the way - grows only when
  an upload is let in, which has just counted the active ones.

Assumptions: customers and workers are different accounts; `NoOne`, `NoDoc`, `NoKey` and the
like are none of what they stand beside; thresholds, batches and limits are positive;
bookings, slots, documents, credentials, jobs, tickets and barangays are finitely many;
documents, credentials and avatars have different keys. TLC evaluates them on each run.

Only model-checked: liveness (`PendingIsAnswered`, `AcceptedMovesOn`, `TicketsDrain`,
`ReachableAgain`), which is beyond the proof system. Neither checked nor proved, but assumed:
that no report taken in time is in flight when a booking turns stale (a guard of
`MayGoStale`), which rests on a request taking less than 22 hours, the time from the end of the
reports to the stale phase; where `Update` moves the window nine hours back, less than 13.

## Not modelled, and the plan

Not modelled for good: wording of messages and pushes, paging and listing endpoints,
role checks (they appear as who may send which operation), the cipher, configuration;
single statements on rows that nothing else writes - the categories, the fields of a
profile, the seed's upserts - as they have no state that could come apart.

Abstracted, and so not shown: several workers in `Uploads` and `WorkerRow` (their rows and
keys are disjoint, and no transaction locks two profiles); `updateProfile`, which can also set
`avatarUrl` to a name of the client's; chunks of more than one call to Expo; an encryption
script started while the server runs; a commit whose answer is lost, after which
`submitVerification` would remove the files its committed row names.

Left in the plan: the composition of `Uploads` with `WorkerVerification`, which share the
documents.
