# A TLA+ verification of the HDU library seat grabber

The program books library seats at the moment they are released. A user creates
a *grab task* for an account; at its run time a BullMQ job wakes a worker that
tries to book until it succeeds or its retry window closes. Beside it a session
keeper keeps every account logged in, a scanner forwards the library's messages,
and notifications go out through WxPusher. The backend is one NestJS process
(`src/src`), with MySQL for its tables and Redis for the queue. A web page
(`src/frontend`) submits tasks, ends them and shows what becomes of them.

This directory holds TLA+ models of that program, the TLC configurations that
check them on small instances, and proofs checked by TLAPS for every size.
`PROJECT.json` maps every definition to the lines it models.

Short names used below: GT `grab-task.service.ts`, SCH
`task-scheduler.service.ts`, PR `grab-seat.processor.ts`, W
`grab-seat-worker.service.ts`, RAK `real-auth-keeper.service.ts`, ACC
`account.service.ts`, MF `message-forward.service.ts`, HC
`hdu-library-client.service.ts`, all under `src/src/modules`, and APP
`src/frontend/src/App.tsx`.

## 1. Inventory

Everything runs in one Node.js process: two pieces of code interleave only at an
`await`, but at every `await` any handler, timer or job may run. There are no
transactions in the code: each repository call commits alone.

| Component | State | Operations | Talks to |
|---|---|---|---|
| Grab task service, controller (GT) | row in `grab_tasks`; `cancellationRequests`, a set in memory | `create`, `cancel`, `requestCancellation`, `updateStatus`, `recordSeatTaken`, `recordPreparse`, `incrementAttempts` | scheduler, MySQL |
| Task scheduler (SCH) | none of its own: two delayed BullMQ jobs per task, `grab-seat-<id>` and `grab-seat-precheck-<id>` | `scheduleTask`, `cancelTask` | Redis |
| Queue (BullMQ, external) | each job: delayed, active under a lock, failed; stalled counter | add, remove (throws on a locked job), deliver, complete, fail, recover stalled jobs | processor |
| Grab seat processor (PR) | none | `process`: precheck (remind, refresh session, preparse seats) and main job | worker, keeper, preparse |
| Grab seat worker (W) | local variables of one run: attempt, candidates, counters, deadline | `executeGrab`, `runGrabTask`, `executeBlindGrab`, `tryGrabOnce`, `markSuccess`, `markFailed` | library client, keeper, GT, notification, attempt log |
| Seat preparse, selection strategy | cache of resolved seats by task | `preparse`, `get`, `invalidate`, `selectCandidates` | library client |
| Library client (HC) | sliding window of request times | `searchSeats`, `bookSeats`, `getAppointMessages` | the library, keeper |
| Session keeper (RAK) | map account -> cookie, login lock, next check | start-up login, heartbeat, `refreshSession`, `getCredentials`, `setSession`, `dropSession` | CAS login, MySQL |
| Account service (ACC) | row in `accounts` | `create`, `refresh`, `remove`, `list` | CAS login, keeper, MySQL |
| Message forwarding (MF) | row per forwarded message; set of baselined accounts in memory | scan rounds, baseline, push, refresh | library client, keeper, notification |
| Notifications, attempt log | rows | `notify`, `log` | WxPusher, MySQL |
| CAS login | none | `casLogin` | the SSO server |
| Web page (APP) | accounts, the list of task cards, each card's task and error, in the browser | `loadAccounts`, restore, `handleSubmit`, `handleCancelAll`, a card's `poll` | GT and ACC, over HTTP |
| Utilities, configuration, scripts | none that the backend reads | | |

What is hard in each, and what makes it correct:

* **Task, scheduler, queue, processor, worker.** Three stores (row, job, memory)
  are changed by four actors in separate awaits, with crashes and redelivery.
  Correct means: no pending or running task without a job that will end it, no
  finished task with a job that will run it, no pending task left over that a
  newer one could see, a cancel that stops the booking, a reported success that was booked, one verdict
  per task, every task ends.
* **Worker loop.** Deadline, rate limits, counters that decide between retrying,
  degrading and giving up. Correct means that the counters count what they say,
  that no unconfirmed seat is reported, that the loop respects the deadline.
* **Session keeper and accounts.** Many callers meet at one lock which lives in
  an entry that other handlers replace or drop. Correct means: one login at a
  time, everyone who waits is answered when that login ends, a retry uses a new
  cookie, a lost session comes back.
* **Message forwarding.** Push, then record; the first answer is the baseline; no
  refresh in the grab window. Correct means: no message lost or repeated beyond
  what a crash explains, no history pushed.
* **The result of a task.** One JSON column with several writers, each of which
  reads it, changes its copy and writes it back, some of them not waited for.
  Correct means: what was reported is there, unless an overlap explains why not.
* **The page.** Answers of overlapping requests arrive in any order, in a page that
  has moved on; other clients add and remove accounts and tasks. Correct means: a
  page opened again shows every active task, a card comes to show the end of its
  task, no task loses its account while it is active.
* **Library client.** Pure decisions (classification, retry, timeouts): correct
  against a reference definition.

The hazards, each at its line, are listed in `PROJECT.json`.

## 2. Plan

1. **GrabTaskLifecycle** with the abstract **TaskLife** (done): task, scheduler, queue,
   processor, worker at round granularity.
2. **SessionKeeper** with the abstract **SingleFlight** (done): the keeper, its
   users, `AccountService`.
3. **GrabWorker** with the abstract **GrabRun** (done): both loops of the worker
   with time, error categories, the counters and seat rotation. **WorkerInLifecycle**
   (done): the steps of such a run are those of the worker of GrabTaskLifecycle.
4. **MessageForward** with the abstract **MessageLife** (done): baseline, push and
   record, failed requests, the refresh ban.
5. **TaskRow** (done): the row of a task and everyone who writes its status and its
   result.
6. **TaskPage** (done): the web page with the handlers it calls, and accounts and
   tasks together: removal beside creation.
7. **ErrorPolicy, SeatChoice**: matching of answers to categories, adaptive
   timeout, preparse resolution (which room, which seats), as operators checked
   against reference definitions.

Of the plan, step 7 is left.

## 3. GrabTaskLifecycle

### State and actions

One action per stretch of code between two awaits. `status[t]` is the row,
`job[<<t, kind>>]` the BullMQ job, `cancelFlag` the set in memory;
`createPc`, `cancelPc`, `run` are the positions of the handlers and of the worker
that holds the main job.

* `create` (GT): CreateBegin, CreateCount (the RUNNING guard), CreateFind (pending
  tasks of the account), per task to override OverrideDropMain,
  OverrideDropPrecheck, OverrideWrite, then CreateSave, ScheduleMain,
  SchedulePrecheck. OverrideLocked and CreateFault are its ways to throw.
* `cancel` (GT): CancelBegin, CancelRead (status decides between removing the jobs
  and the cooperative flag), CancelDropMain, CancelDropPrecheck, CancelWrite;
  CancelLocked and CancelFault throw.
* the queue: Deliver (under `Concurrency`), completion (the job disappears),
  failure, StalledCheck (requeue up to `MaxStalled` times, then fail). BullMQ is
  external and is modelled from how SCH and PR use it: removing a locked job
  throws, removing an absent one does not.
* the worker: LoadTask (find the row, fire the RUNNING update), RunningLands (that
  update is not awaited), WindowPasses (the deadline), LoopExpired,
  LoopCancelled, LoopRound, RoundBooks, RoundRetries, RoundFatal,
  RoundAnswerLost, SleepOver, SleepCancelled, MarkSuccess/TellSuccess,
  MarkFailed/TellFailed, JobCompletes.
* Crash: memory and workers are gone, rows and jobs stay, active jobs become
  stalled. RunFault, PrecheckFault, CreateFault, CancelFault: a call to MySQL,
  Redis or the library throws.

A round, searching or blind, is one control state: which seats it tries and how
long it sleeps belong to GrabWorker (section 6), and that a run of GrabWorker takes no
step which is not one of these is checked and proved there. Delays are abstracted: a
queued job may be due at any time. RoundAnswerLost is a booking accepted while its answer
is lost, or a lost request accepted later: the round goes on or pauses. RoundRetries pauses
or, at the deadline and after a new session of the blind loop, does not.

`TaskLife` is what the backend promises of each task as long as its process lives: the
row is inserted once and shows the run only after "pending"; one run serves the task, and
only while it does may the library book for it; the run judges once, a success only with a
booking, tells only what it has judged, once; a cancel or an override overwrites the row
only when nobody will start serving the task. GrabTaskLifecycle implements it with `phase`
computed from the positions of the worker, of `create` and of the job (`Phase`):
"waiting" as long as the main job is queued, or is still to be added.

`Races` selects three orders that real timing makes rare and the code does not
exclude: `earlyCancel` (a cancel before `create` has returned, so before the
user has the id from it), `parallelCreate` (two creates of one account overlap),
`lateRunning` (the unawaited RUNNING update lands after a later update). The
calm runs exclude all three; `lifecycle_disturbed` allows creates to overlap, which no
lock, transaction or unique index in GT:28-83 prevents; a theorem below that does not
exclude a race holds with it allowed. With the race the matching properties fail:
early cancels let a cancelled task run, parallel creates leave two pending tasks,
a late RUNNING update leaves a finished task RUNNING. They are listed as hazards,
not findings, where no document promises otherwise.

Two pending tasks of an account are therefore not excluded. What OnePendingUnlessUnseen says is
that there is one way only to get them: the older of the two rows was inserted after the
`create` of the other had looked the pending tasks up. No override that is refused or
fails half-way, no crash, redelivery or cancel leaves a second one. `unseen` is the
history variable for it: for each task the tasks of its account that were inserted
between its lookup and its own insert.

### Runs

| Run | Instance | Shows |
|---|---|---|
| `lifecycle_calm` | 2 tasks of one account, 2 workers, 1 cancel, no crash or fault, fair | RunningHasJob, CancelledIsTerminal, TerminalNeverQueued, NoNewRoundAfterCancel, ImplementsTaskLife, TaskEnds |
| `lifecycle_disturbed` | 2 tasks, 1 worker, 1 cancel, 1 crash, 1 failing call at any point, creates that may overlap, symmetry of tasks | TypeOK, PendingHasJob, SuccessIsBooked, OnePendingUnlessUnseen |
| `cancelled_stays` | calm | violated: a cancelled task does not stay cancelled |
| `pending_will_run` | calm | violated: `cancel` of a task in precheck leaves it pending without a job |

Two tasks of one account are enough for every rule of the code: `create` and the
override relate two tasks, accounts share nothing but the worker pool, which two
workers (every job at once) and one worker (jobs queue behind each other) cover.
One cancel meets every position of the other handlers; a second one to the same
task reads a terminal status. One crash covers redelivery of a stalled job
(`MaxStalled = 1`, BullMQ's default), and a second delivery that is failed. The
symmetry set permutes tasks that are treated alike and is not used with liveness.
The VIEW of `lifecycle_disturbed` identifies states that differ only in what no guard and
no invariant of this run reads any more: the deadline of a run that is over (LoadTask sets
it anew), a booking with which the worker has not gone to its verdict (RoundBooks enters
it anew), reports of a failure, which cancels have returned, and what `aborted` and
`unseen` say of tasks that are past "pending", which no task returns to. States it
identifies have the same future up to these, so that it leaves out no case; TypeOK says
of the variables it cuts down only what the steps that write them keep, and is proved
for all of them (TypeCorrect).
Failing calls are in `lifecycle_disturbed`; of the properties of `lifecycle_calm`, all
but TaskEnds are proved with failing calls at any point.

Deadlock is not checked in any run: when all tasks have ended and no user acts the
system stops.

**Fairness** (calm run). Weak fairness of each handler's and worker's next step: an
awaited call returns (HTTP calls to the library have a timeout, database and
Redis clients report lost connections); of the unawaited update, of time passing,
and of BullMQ's delivery and stalled check. Nothing obliges users to create or
cancel, or faults to occur. TaskEnds, which says of a task and of its worker that
both end, then rests on the deadline:
without the check at the top of the loop (mutant LoopRound_NoDeadline) a worker
runs for ever.

### Proofs (`GrabTaskLifecycle_proofs`, `CalmLifecycle_proofs`)

For any set of tasks, accounts, workers and bounds:

* **TypeCorrect**: TypeOK.
* **PendingHasJobHolds**, with crashes, faults and all races. PendingHasJob is not
  inductive: a redelivered job could complete a task that is pending again. The
  invariant JobInv adds RunIffActive (a worker is at work exactly when the main
  job is active), RowExists (jobs, cancels and workers refer to inserted rows) and
  LeftPending (a worker past LoadTask has left "pending" behind, or its RUNNING
  update is still on the way, and nothing writes "pending" again).
* **SuccessIsBookedHolds**, with everything allowed: BookedInv adds that a worker
  on its way to markSuccess has booked.
* **OnePendingUnlessUnseenHolds**, with everything allowed, overlapping creates too:
  LookupInv adds that between the lookup and the insert every pending task of the
  account is in the list to be overridden or was inserted after the lookup, and that the
  list is empty at the insert.
* **NoNewRoundAfterCancelHolds**, assuming no crash and no cancel during create:
  FenceInv says that a task whose cancel is past its point of no return is fenced,
  by the flag or because its main job is gone with nobody left to add it.

As long as the process does not crash, and with failing calls at any point, a main job is
delivered at most once (NoStalledMain), and four more invariants hold:

* **OneVerdictHolds**, with all races: VerdictInv says that a run that can still report
  has reported nothing. (The runs check it as part of TaskLife, which lets a task be told
  once.)
* **TerminalNeverQueuedHolds**, assuming that creates of an account and a cancel and the
  create of its task do not overlap; late updates are allowed. PastInv: whatever shows
  that a task has been read by its worker or had its job taken away (its status, its
  flag, its RUNNING update, a handler about to write it) shows that its job is not
  queued and will not be added. It rests on LookupInv and FenceInv.
* **CancelledIsTerminalHolds** and **RunningHasJobHolds**, assuming none of the three
  races. CalmInv adds that no RUNNING update is on its way once the row is past it, and
  that a task is Safe (not running nor about to be, or handled, or left by a handler that
  threw) from the moment its job is gone, its cancel is flagged or its worker has written
  the final status. PastInv is needed here: a flagged task that was loaded again would be
  running with no one to end it, which is what a crash can bring about.
* **TaskLifeImplemented**, under the same assumptions: every step is one of TaskLife or
  none it can see. It uses CalmInv, PastInv and BookedInv together, and OverrideInv: a
  task that is about to be overwritten by a newer one has no job any more.

## 4. SessionKeeper

### State and actions

One account (accounts share nothing but the order of the heartbeat loop): its row,
its entry in the map (`session`: cookie, lock, check due), the logins in flight,
the position of every caller (users, overlapping heartbeat ticks, the start-up
login), status updates not yet applied, and the handlers of `AccountService`. A
cookie is named by the login that obtained it; a name is free again when nothing
refers to it.

* EnsureLoggedIn is `ensureLoggedInWithTrigger`: join the login in progress, or
  start one, creating the entry if there is none. LoginSucceeds and LoginFails
  are `login()` with its `catch` and `finally`: they look the entry up *again*,
  and in the same step (promise callbacks run before any other handler) everyone
  who waits resumes and issues a status update.
* ReadRow is the read of the row at the start of a refresh, used by UserRejected
  (the worker and the message forwarder), PrecheckRefreshes, TickProbes (empty
  cookie) and TickInvalid. It throws when there is no row, when the query fails and when
  the password cannot be decrypted (RAK:199-205); the caller then goes on without a login.
* TickProbes, TickValid, TickInvalid are the heartbeat; AfterCheck moves the next
  check whatever came of it. A probe that fails on the network counts as valid.
* BootReads is `onModuleInit`: an active account gets its login, or "login_failed" and
  no entry if its password cannot be decrypted (RAK:81-87). AddSaves and AddSetsSession, RefreshBegins to
  RefreshSavesFailed, RemoveBegins to RemoveDropsSession are `create`,
  `refresh` and `remove` of `AccountService`, whose logins do not take the lock.
* WriteLands: a status update is applied or fails, in any order. Crash loses all
  memory.

`lapses` is a history variable: which of the two things have happened since the last
start that may leave an active account without an entry. A refresh of AccountService has
inserted the row of a removed account again (`revived`), or the start-up login could not
decrypt the password (`unreadable`).

`SingleFlight` is what the lock promises. Its state is the *groups* of callers that wait
for the same login and the group that holds the lock; logins have no names in it. `Ask`
joins the holder's group or founds one, `End` answers one group and nobody else, and
`LockLost` is what AccountService does to the lock: from then on the old group waits as
before, and the next caller founds a new one. A login that has lost the lock still
releases it when it ends, for whoever holds it then; that is the code's `finally`, which
looks the entry up again. SessionKeeper refers to it by
`SF == INSTANCE SingleFlight WITH groups <- {Waiting(l) : l \in flight}, holder <- ...`.
How many groups there can be at a time, SingleFlight does not say; OneLogin does:
one, and one more for each call of AccountService.

### Runs

| Run | Instance | Shows |
|---|---|---|
| `session_admin` | 1 user, 1 tick, start-up; 2 calls of AccountService, 1 restart | TypeOK, LockIsLive, OneLogin, ActiveHasSession, RefreshReplaces, RemovedStaysRemoved, ImplementsSingleFlight |
| `session_live` | same callers, 1 call of AccountService, no restart; fair | HeartbeatRepairs, RowFollowsSession |

Three callers are the fewest that show one who starts, one who joins and one who
comes after the entry was replaced. Two calls of AccountService replace the entry
twice under logins in flight, remove and re-create it, or let a refresh run into a
removal. `MaxWrites = 2` lets two updates of a kind wait in `session_live`, where their
order decides what the row says in the end. `session_admin`, which has the second call and
the restart, would take too long with it and keeps one of each kind: updates of
different kinds still overtake each other, and none of its properties counts them. The
updates of one login are issued together however many they
are, when no other is pending, so that no login waits for the bound for ever. Login
names: a run needs one per login in flight, per cookie in the entry or sent by the user,
and for the next login; five never run out where a caller could act.

The liveness properties are checked beside a call of AccountService: the refresh button
replaces the entry under a login in flight, and when that login fails its `catch` clears
the cookie the button has just obtained (RAK:319). Nothing promises the cookie;
HeartbeatRepairs says that the account is logged in again, unless it has been removed.
With two calls the check of liveness takes too long. `session_live` begins with a start-up on any row; `session_admin` has a
restart at any point.

**Fairness** (`session_live`): logins end (`casLogin` has a timeout for each request, and
follows a bounded number of redirects), the interval timer fires, the clock passes the next check, status
updates land, a resumed handler goes on, those of AccountService too. A probe is assumed to end; the HTTP module
of the keeper sets no timeout, but ticks overlap, so a probe that hangs only costs
its own tick. Users are not obliged to do anything, and cookies may be refused at
any time. A check of the heartbeat that needs the row may fail at reading it, and the
next one has to try again; strong fairness of TickGetsOn says that not every check is
lost that way as long as there is a row. HeartbeatRepairs and RowFollowsSession need
it: a password that can never be decrypted leaves an account without a session for
good. RowFollowsSession needs more than that updates are answered: two of them
may land in the wrong order, and any may fail. What corrects the row is the update of
every later heartbeat; strong fairness of an update that lands *and succeeds* says
that of the updates sent again and again some do. Without the heartbeat's update of a
valid session (mutant TickValid_NoStatus) a row stays wrong for ever.

RemovedStaysRemoved names its exception: `refresh` of AccountService saves the row it
read before its login, and `save` inserts it again if it is gone.

ActiveHasSession relates the two places that say whether an account is there. Its
disjuncts are the moments at which the row is ahead of the entry (the start-up login has
not begun, `create` or `refresh` has saved the row and is about to store the cookie), and
the two lapses are its exceptions. Both really break it: after `revived` the
dropSession of the removal may take the entry that the refresh has just stored, and
after `unreadable` the update to "login_failed" may fail, or be a while on its way. That
no login, late update or half-way removal does it otherwise is what the property says; a
start-up that passes over active accounts would (mutant BootReads_Failed).

### Proofs (`SessionKeeper_proofs`)

For any number of users, ticks and logins, and any bounds:

* **SessionTypeCorrect** and **LockIsLiveHolds**, with AccountService and restarts:
  the two are inductive together.
* **RefreshReplacesHolds**, the same: FreshInv adds that neither the entry nor a
  user has the cookie of a login still in flight; AnsweredBySuccess shows that
  only LoginSucceeds answers a user positively.
* **OneLoginHolds**, the same. `Cardinality(flight) <= 1 + admin` is not inductive: it
  must be known why a login is in flight without the lock. BoundInv counts those logins,
  adds the calls that have yet to write the entry (Owed) and bounds the sum by the calls
  made. AdminOwes shows that a handler pays for the lock it takes; a login that ends
  without the lock takes it from another, which replaces it in the count (EndFreesLock).
* **SingleFlightImplemented**, the same: GroupInv adds that every login in flight has
  somebody waiting, so that different logins are different groups (GroupsDiffer).
  AskGroups and EndGroups say what the two steps that count make of the groups;
  Bystanders shows that the steps of users, ticks and updates are stutters, and
  AdminOwes that those of AccountService are a LockLost or a stutter.
* **ActiveHasSessionHolds**, the same. EntryInv adds that a row without an entry has no
  login in flight, no update to "active" on its way and no probe that could issue one,
  that a removal about to drop the session has deleted the row, and that before an
  account is added there is nothing at all.
* **RemovedStaysRemovedHolds**, with AccountService and restarts: NextBringsBack looks
  at every step that writes the row or the entry and says what it had read before.

## 5. MessageForward

### State and actions

`polling` and `baselined` are the two fields of the service, `records` the table
of forwarded messages (a set of keys: account, booking, title), and `pc`, `todo`,
`acct`, `first`, `batch`, `msg` the locals of each firing of the interval timer.
The world around it: the messages the library lists, the accounts whose row is
active, those whose session the library refuses, and whether it is between 19:55
and 20:05. `mode` is NOTIFY_MODE, fixed at start.

* PollBegins is the re-entry guard, ListAccounts the query, NextAccount the loop,
  RoundEnds its end; ListFails goes through `catch` and `finally`.
* Answer, AnswerFails, AnswerExpired are the three outcomes of
  `getAppointMessages`: the list, an empty list for every failure (HC:480-511),
  SessionExpiredError. RefreshReturns is `refreshSession`, which may fail.
* BaselineSaves, BaselineSaveFails, BaselineDone are `baselineSync`; the account is
  marked after its messages have been recorded, whatever failed.
* Lookup, LookupFails, Push, PushFails, Save, SaveFails, ForwardDone are
  `forwardNewMessages`. PushFails depends on `mode`: the WxPusher service logs the
  error and returns, the mock service throws.
* Crash empties the memory. A push that is not yet recorded stays unrecorded, and
  after the restart every account has a new baseline, which records without
  pushing whatever has been posted meanwhile.

`MessageLife` is the promise, message by message: what an account lists at first is
history, which is kept or lost, never shown, and the account is opened only when all of it
is; from then on a message without a record is shown, one at a time, and recorded or lost
before the next; one that is history, or was shown before, only if its record was lost. A
restart closes every account. MessageForward implements it with `open <- baselined`,
`history` the keys of `old`, `seen <- delivered`, and `hand` the message of a round that is
about to save.

`delivered`, `old`, `swallowed` and `lost` are history variables for the
properties: keys that reached the user, messages listed when their account was
first answered, keys whose failed push was hidden, keys whose record was not
written because of a fault or a crash. The order of accounts and of messages in an
answer is left open. Staggering and the interval are only time.

An empty cookie counts as a refused session; an account without an entry in the
session keeper makes the request fail before it is sent, which is AnswerFails.

### Runs

| Run | Instance | Shows |
|---|---|---|
| `forward` | 2 firings, 2 accounts, 2 messages of one account; 1 fault, 1 restart, 1 window, 1 change of status or session; fair | TypeOK, NeverSkipped, OnlyNewIsPushed, ImplementsMessageLife, PollingEnds, MessageArrives, ExpiredIsRefreshed |
| `history_pushed` | 1 fault | violated: the first request fails, the second answer is pushed as new |
| `unpushed_recorded` | 1 fault | violated: a message that was not pushed is recorded |

Two firings are what an overlap needs (without the guard a message is pushed
twice: mutant PollBegins_NoLock), and between them rounds go on for ever, since a
firing that has ended may begin again. Two messages of one account show that one
does not keep the other from arriving; the account without messages shows that
accounts do not disturb each other. One fault meets every call; the
proofs of the safety properties bound neither faults nor restarts.

**Fairness**: the interval timer keeps firing; a round's next call returns (both
HTTP modules it uses set a timeout; its pauses are finite); the window closes.
Nothing obliges the library to post messages, or a refresh to succeed: MessageArrives
speaks of accounts that are active and accepted, and ExpiredIsRefreshed says that
a refresh begins. Faults are bounded, so that a call that fails for ever is not a
counterexample.

The ban is checked when a refresh begins. One that began at 19:54 runs into the
window; the model has that behaviour, and no document excludes it.

### Proofs (`MessageForward_proofs`)

For any number of firings, accounts and messages, with faults, restarts and changes
at any time:

* **ForwardTypeCorrect**.
* **NeverSkippedHolds** from DedupInv: at most one round is
  in progress and the flag is set while it is (OneRound); what is about to be
  pushed has no record, what is about to be saved was pushed or swallowed
  (RoundKnows); what was delivered is recorded, about to be, or lost
  (DeliveredRecorded). OneRound is what makes RoundKnows survive the steps of
  others. StepMovesOne, that a round's step moves that round only, is proved once.
* **OnlyNewIsPushedHolds** adds BaseInv: a round that forwards works on a
  baselined account (RoundAccount), and the old messages of such an account are
  recorded or lost, those of one being baselined still in its batch (OldIsKept).
* **MessageLifeImplemented** from the same invariant: OneRound makes the message at hand
  the only one (EmptyHands), BaseInv gives the guards of Look, Open and Show; the other
  steps are stutters (LifeQuiet).

## 6. GrabWorker

### State and actions

One run of `GrabSeatWorker.executeGrab`, of one task: from Start (runGrabTask up to
the loop) to a verdict, a cancel or an exception. `pc` is the await the run is in;
`attempt`, `unknown`, `notOpen`, `network`, `queue` are its local variables, `entry`
the preparsed seats it has found (a run with an entry is *blind*), `cands` the
candidates of a searching round that are left. The library's side is `booked` (seats
it has booked for us), `late` (requests whose answer was lost and that it may still
accept) and `known` (the booking a delivered answer has confirmed).

* Start, Preparsed, PreparseFails: `resolvePreparse`. An entry holds the preferred
  seats that the chosen room has, in their order (`Entries`).
* LoopExits, LoopCancelled, BlindBooks, Searches: the heads of both loops: deadline,
  cancellation flag, `attempt++`.
* SearchFinds, SearchFails, SearchBooks, SearchRefused: `tryGrabOnce`; SearchFailed and
  SearchRetries: what `runGrabTask` makes of its result.
* BlindRefused, with Rotate: the exits of `executeBlindGrab` by category; ConfirmFree
  and ConfirmNotFree: `confirmSeatState` after a lost answer.
* BookAccepted, BookAnswers, LateAccept: the library. An answer is any category that
  `bookSeats` can report (`BookCategory`). After "network" *and* after "unknown" it is not
  known what became of the request: HC:243-263 turns every exception into one of the two,
  by its message, so that a gateway's error or a connection closed half-way reaches the
  worker as the answer to a text it cannot place. The blind loop asks for the state of
  the seat after "network" only, and tries again after "unknown".
* PauseOver, PauseCancelled, NapOver: `sleepInterruptible`. Three sleeps of the blind
  loop do not look at its result (`nap`): a cancel ends them early and the head of the
  loop stops the run.
* RefreshDone, RefreshFails, Logged, MarkSuccess, MarkFailed, Tell: the rest of the exits.
  MarkSuccess and MarkFailed write the final status, Tell is the notification that is
  awaited after it. Throws is a failing insert of the log, update of the status, or
  notification.
* UserCancels is a `cancel` of the running task, which refuses one with a final status.

Time is counted from the trigger. Every call takes any time and a timer may fire
late, which covers the random addition to a pause (`jitterMs`). A worker woken after
the window takes its waking as anchor, which is a run woken at 0. The preference list
has no seat twice (assumed). Seat-taken notices, the attempt counter in the row and
the notices of the start are fired and not awaited, and decide nothing here.

`paceUntil`, `tried` and `answers` are history variables. `answers` is what a blind run
has been answered so far; `Silence` picks from it the requests left without an answer since
the library last answered as one that is there (`SignsOfLife`: closed window, too many
requests, seat not available). GiveUpOnSilence compares the decision to give up with this
history, from which the counter of the code is not read. `LeastPause` says of each
answer, from its category and the counters before it, how long the run must at least
stay away, independently of the pause the code computes.

`GrabRun` is the promise: send requests until one is confirmed; report at most once,
success if and only if one was confirmed; the library may accept lost requests at any
time. GrabWorker implements it with `running <- pc \notin {"tell", "done"}` (the report is
the final status) and `sent <- late` plus the request in flight.

`WorkerInLifecycle` ties the two levels together. It instantiates GrabTaskLifecycle with a
single task, whose state is computed from a run of GrabWorker: `RunPosition` maps the
fifteen places of a run to the nine of the worker there (a search, a booking, a
refresh and a confirmation are all "round"), the row follows the verdict, a cancel is one
that has set the flag, and an exception is a failed job. A run begins where the other
module has `create` returned, the job delivered, the task loaded and its RUNNING update
landed, with the one `cancel` at its read. StepsOfLifecycle says that every step of a run
is a step of L!Next, or changes nothing that module has, and that its state is of the
types there. So the guards that the round-level worker rests on are those of the code:
rounds start only before the deadline and without a cancel, only a booking leads to
markSuccess, every exit but a cancel writes a verdict, and only one is told.

### Run

`worker`: 3 seats, 2 of them preferred, woken at 0 or 3 of a window of 5, 4 rounds, 1
failing database call, a cancel at any point. It shows TypeOK, EndHasVerdict,
GiveUpOnSilence, PaceKept, RotationFair, ImplementsGrabRun and StepsOfLifecycle.

A third, not preferred seat is what strict mode must leave out and the others keep
for the end; two candidates are the fewest that rotate. The limits are 2 instead of
10, 2 and 5, so that four rounds pass each of them and meet the round after. The
pauses are small numbers in the order of the code's (300 ms < 1 s < 3 s; 0.8 s <
1.15 s < 3 s), with 0 for the shortest; the window is long enough for a low-frequency
pause in the middle and one that is cut off at its end.

The VIEW replaces `answers` by the length of the silence and by whether the last request
was lost. Both can be computed after a step from what they were before it, the rest of
the state and the answer, and no property reads more of the history, so that
states it identifies have the same future.

No fairness is assumed: the properties are safety properties, and that a run ends is
TaskEnds of GrabTaskLifecycle. Deadlock is off because a run ends, and because the
bounds on rounds and time stop a run that would go on.

### Proofs (`GrabWorker_proofs`, `WorkerInLifecycle_proofs`)

For any seats, preferences, wake times and bounds, and any pauses and limits in the
order `WorkerAssumption` states (which is the code's; it includes that the first shot of
the blind loop is not after the end of the window):

* **WorkerTypeCorrect**, **EndHasVerdictHolds** from RunInv.
  EndHasVerdict is not inductive: `executeBlindGrab` ends without a word when its queue
  is empty. QueueLives says that the queue of a blind run never is; KnowsByPlace says
  what is booked and told at each place.
* **GiveUpOnSilenceHolds**: GiveUpInv says that the counter is the size of the silence,
  and that a run which goes on to a request after one that was lost and seen free has
  it below the limit. SilenceAfter says what one more answer makes of the silence,
  NetworkCounts that the code's counter follows it.
* **PaceKeptHolds**: PaceInv says that the end of the pause is not before the least
  pause *or* not before the deadline, and that at the head of the loop the least pause
  is over, or the deadline passed, or the run cancelled. ClampSuffices is the fact
  about clamped pauses; RetryPauses compares the computed pause with the least one.
* **RotationFairHolds**, for any number of candidates: QueueInv orders the queue (what
  is behind a seat has been tried since that seat was sent back), FrontInv says that
  the seat being tried is the head. RotateKeeps carries it over one rotation.
* **GrabRunImplemented**: RunInit and RunStep, with RoundsKnowNothing for the rounds.
* **StepsOfLifecycleHold**. The steps inside a round, a pause or the way to the first round
  are quiet (QuietStutters); a step that moves the worker and touches nothing else the
  mapping shows is proved once (QuietMoves, Moves) and cited by the rest. The mapping
  needs more than TypeOK: PlaceInv says that a pause before the first round does not outlast the window, and
  where the first round is past; ThrewInv that a run which has thrown is over; QueueLives rules out the silent exit of the blind loop, RunInv that a run about to mark
  a success has booked.

## 7. TaskRow

### State and actions

One row of `grab_tasks`: `status`, and `result` with the three parts that are ever
written: the preparse, the taken seats, the final seat or reason. Its writers, each at
database-call granularity:

* A verdict, a cancel, an override (Close): `updateStatus` with a result replaces the
  whole column. RunningLands is `updateStatus` without one, which the worker does not
  wait for.
* A report: ReadRow, then WriteBack of the copy with its own part put in (Merged).
  `recordSeatTaken` is fired by the worker and not waited for, each seat once in a run
  (SeatsTaken: several from one snapshot, or one that was refused); SeatReportFails is
  the `catch` of `notifySeatTaken`.
* The precheck (PR): PrecheckReports after the preparse or after a failed refresh,
  PrecheckReportFails and WarningFails through the `catch`, which records a failed
  preparse, PrecheckEnds.
* The rest of the worker and of `cancel` that decides when these may happen: RunStarts,
  RunEnds, RunStops, VerdictFails, CancelReads, CancelUnqueues (which throws on a job
  being processed), CancelFails.

`at` and `copy` are a report's position and what it has read. `behind`, `stale`,
`closed` are history variables: what has been written since a report read, what has
been overwritten by a report that was behind on it, whether a final status was written.

The code loses writes: two reports that overlap, or a report and a verdict. The
properties say that nothing else does: VerdictLostOnlyToStale and
ReportLostOnlyToOverlap name the overlap as the only excuse.

### Run

`task_row`: 2 seats and the precheck, 2 failing calls, a cancel, symmetry of the seats.
Three reports are one that is lost, one that overwrites it and one that comes after
both; two failures meet a report and the `catch` that follows it. It shows TypeOK,
VerdictLostOnlyToStale and ReportLostOnlyToOverlap. No fairness; deadlock is off
because the task ends.

### Proofs (`TaskRow_proofs`)

For any seats and any number of failing calls: **RowTypeCorrect**, then StepKinds sorts
every step into four (a report reads, a report writes back, a final update, or the row
is left alone), so that the two invariants are proved over four cases instead of
eighteen. **VerdictKept** from VerdictInv: a report about to write back carries the
verdict in its copy or is behind on it. **ReportKept** from ReportInv: it carries every
recorded report, or is behind on it.

## 8. TaskPage

### State and actions

The backend as its clients see it: `account`, `row`, `owner`. One page in a browser:
`known` (its accounts), `list` (`taskStatuses`, the cards), `asked` and `found` (the
restore in progress), `click` (handlers of clicks in progress), and the `card` of one
task with its polls on their way.

* AccountAdded; RemoveCounts and RemoveDeletes, the two database calls of `remove`
  (ACC:103-126); Creates, by this page (SubmitCreates) or another client
  (CreatedElsewhere); TaskStarts, also of a job that is delivered again; TaskEnds.
* LoadAccounts: `loadAccounts` and the effect that runs when the set of accounts has
  changed: the old restore is void, a new one begins. ListingAnswers, ListingFails and
  Settle: `Promise.allSettled` over `listGrabTasks`, applied when the last is answered,
  and only if something was found.
* Submit, SubmitCreates, SubmitFails, SubmitEnds: `handleSubmit`, which empties the list
  at once and fills it at the end. CancelAll, CancelsOne, CancelEnds: `handleCancelAll`.
  Nothing disables a button while a handler is at work, so handlers of several clicks
  run at once (`Clicks`).
* Render: what React does with a new list: mount, keep or unmount the card.
* PollReads (at mount and by the interval, whether or not earlier polls are answered),
  PollAnswers, PollFails, with Stops (the poll at mount cannot stop the interval) and
  Shows (an error is never cleared). Reload forgets the page.

`late`, `acted`, `newer`, `missed` are history variables: tasks younger than the count
of `remove`; whether the user has clicked; tasks younger than the restore; whether a
listing of the restore has failed.

Abstractions: an account's id is used once (that `refresh` may insert a removed row is
in SessionKeeper). The list of accounts is read and applied in one step: it is one
answer, fetched again every 30 s. `create` is one step: its awaits and their interleavings are
GrabTaskLifecycle's. A CAS login, seats, dates and forms are left out; the selection is
any set of accounts shown, or removed by somebody else meanwhile. Cards of different
tasks share nothing, so one is followed. Of two equal answers on their way one is kept.
Two `remove` calls of one account at once are one.

### Run

`task_page`: 2 accounts, 2 tasks of one account or of each, one click handled at a time,
2 polls on their way. Two accounts are a restore that waits for a second answer, and one
to be removed while the other stays; two tasks are one that is overridden, or younger
than the other. `Owners` leaves out choices that differ by the names of the accounts;
only the task that is not followed is delivered again. The theorems have any number of
all of these. It shows TypeOK, RestoreShowsAll, OrphansAreYounger and CardLearnsEnd.

**Fairness**: the interval of a card fires, and while polls are out one is answered or
fails, not necessarily the oldest. Nothing obliges the user, the tasks or the other
requests. Deadlock is off: a page without accounts and clicks stops.

### Proofs (`TaskPage_proofs`)

For any accounts, tasks, owners, clicks and polls: **PageTypeCorrect**, which includes
that a card is mounted exactly while its task is listed. **OrphansAreYoungerHolds** from
OrphanInv: already between the count and the deletion, an active task of the account is
younger than the count; RowKinds sorts the steps into those that make no task active and
those that make one active and record it. **RestoreShowsAllHolds** from RestoreInv: while
listings are out, every wanted task of an account that has answered is found, and the
rest are still to be listed; BackendWantsLess says that steps of the backend make no task
wanted that was not.

## 9. Where code and words disagree

* A cancelled task does not stay cancelled (`cancelled_stays`; `src/README.md:421`).
* Cancelling a task whose precheck is running throws half-way (`pending_will_run`;
  GT:207): the main job is gone, the row says pending.
* History is pushed after all (`history_pushed`; MF:216-217): a first request that
  fails answers like an account without messages, and completes the baseline.
* A message that was not pushed is recorded (`unpushed_recorded`; MF:241): the
  WxPusher service hides the failure that the forwarder relies on to retry.

Met while modelling, and not checked by a run of their own:

* `create` does not wait for the old worker (GT:35 says the guard is there for that):
  it looks for RUNNING rows, and `cancel` has already written CANCELLED while the worker
  is still in its round. Nor does it see a task that starts between its two reads.
* A cancel between a restart and the redelivery of the job. The worker loads the task
  whatever its status, writes RUNNING over CANCELLED, meets the flag and stops without
  writing anything (W:155, W:200): the row stays RUNNING with no job, and `create` refuses
  the account until somebody cancels the task again (`lifecycle_calm` with
  `MaxCrashes = 1` gives the trace for RunningHasJob).
* Two logins of one account. The lock is a field of the map entry; setSession (RAK:242)
  replaces the entry and dropSession (RAK:236) deletes it while a login is in flight, and
  the next refresh starts a second one. RAK:282-283 says that an account never has two at
  a time, and that no request uses a cookie that is being replaced; `getCredentials` does
  not look at the lock, so users are given the old cookie during every login. OneLogin
  bounds how many logins there can be.
* `remove` reads `account.id` again after `accountRepo.remove(account)` (ACC:122-124).
  TypeORM takes the id off an entity it has removed, so that dropSession may be given
  none. RemoveDropsSession allows both outcomes; the entry then stays, and the heartbeat
  keeps probing an account without a row, which every property checked here survives.
* A refresh that inserts the row again and stores its session between remove()'s deletion
  of the row and its dropSession (ACC:122-123) leaves an account that the page shows as
  active and that has no entry until the next restart or refresh. It is the exception
  `revived` of ActiveHasSession.
* An active account whose password cannot be decrypted at start-up gets a status and no
  entry (RAK:81-87). The heartbeat looks at entries only, so that nothing tries again
  until a restart or the refresh button. It is the exception `unreadable`.
* GT:167 says that taken seats are appended, and `src/README.md:419` that the page sees
  them. Two reports that overlap leave one seat, and a report that had read the row
  before the verdict puts the old result back: the ended task shows no seat and no reason.
* A preparse that was recorded as ready is recorded as failed when the warning about it
  cannot be sent (PR:97-124), though only the warning failed.
* `src/README.md:427` says that tasks submitted are not lost from the page. A restore that
  is answered after a submission replaces the list by what it had read before (APP:252);
  an answer that comes while the submission is at work is itself replaced at its end
  (APP:419), together with the tasks it restored.
* GT:236 says that the page learns of a cancellation by polling. An old answer that
  arrives after the one that stopped the interval leaves the card on "running", and one
  failed poll leaves it on an error, for good (APP:81-87, 95).
* `src/README.md:356` says that an account with active tasks is not removed. One that is
  created between the count (ACC:110) and the deletion (ACC:122) loses its account, and
  `create` does not ask whether the account is there.
* cas-login.ts:42 bounds a whole login, redirects included. `fetchWithTimeout` (line 81)
  replaces the signal of that bound by its own, and `followRedirects` is not given it:
  only the single requests are bounded.
* `src/README.md:265` and `:415` give the blind loop 300 ms between attempts while the
  window is closed; W:57 has 1150 ms, and 300 ms only in the searching loop.
* `src/README.md:417` ends a task at once on a parameter error. `classifyBookError`
  (HC:442) has no case for it: it reaches the worker as unknown and is retried.
* The comment at W:62 limits consecutive network errors. The limit is looked at only
  when the search after a lost answer shows the seat as free; while that search fails
  too, the run goes on to the end of its window. Answers that are unknown or
  "session expired" do not reset the count. GiveUpOnSilence is worded for what the
  code does.
* A request that fails with an exception not recognised as a network error (HC:243-263)
  may have been booked, and is retried without asking for the state of its seat (W:630):
  the comment at W:62 speaks of lost answers, and these are not counted among them.

## 10. What is only model-checked, and what is not modelled

The liveness properties (TaskEnds, HeartbeatRepairs,
RowFollowsSession, PollingEnds, MessageArrives, ExpiredIsRefreshed, CardLearnsEnd) need
fairness and ENABLED and stay with TLC, as would anything proved by induction over data
or about RECURSIVE operators. Every invariant
and every action property that a passing run checks is proved.

Not modelled so far: the resolution of rooms and seats in the preparse and the
lifetime of its cache, the matching of texts to categories, the adaptive timeout (see the
plan), the counter of attempts in the row (written, shown, and read by no decision), and
the text of the warnings about seats wanted by two accounts. Left out for good: parsing and building of requests, rendering of
notifications, encryption, the CAS redirects, the forms and dates of the page and
`usePollTask.ts` (imported by nobody), and the scripts, which keep no state of the system. MySQL's and BullMQ's own internals are
taken as the code uses them.
