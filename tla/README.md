# Funnel tracking: verification project

The program keeps track of the people ("seekers") who write to a Facebook Page,
proposes messages to them with an LLM pipeline (MAS), has a human approve each
message, and delivers it through a browser that a person may be using at the
same time.  There is no Facebook API behind it: a send is text in a composer,
a key press, and a look at the page afterwards.  What can go wrong is therefore
less in any one function than between them: between a read of a page and the
write that relies on it, between a commit and the next, between the worker and
the person at the dashboard or in the same tab.

## 1. Inventory

Each entry: what the part keeps, what it does, what makes it hard, what would
make it correct.  `PROJECT.json` lists the same parts with their sources, and the
hazards with the line where each bites.

**Action queue** (`tools/l5_action_queue.py`, `web/.../action-queue/**`).
State: the table `action_queue`, one row per proposal, status pending, approved,
executing, executed, rejected, failed or deleted, a JSON payload, a unique index
over live rows.  Operations: enqueue, replace (regenerate), approve, reject,
claim, finish; on the dashboard approve, reject, re-process, delete.  Hard: four
kinds of writers, two databases with different locking, check-then-act in every
transaction.  Correct: one live row per slot, one DM per recipient in delivery,
no late write overturns a decision.

**HITL executor** (`tools/l5_hitl_execution.py`, `tools/l5_delivery_guard.py`).
State: none but the table; it works on the row it claimed from memory.  A cycle
reconciles drafts handed over earlier, claims and delivers at most one reply and
one proactive DM, refetches threads of outdated rows, polls Telegram.  Hard:
every step reads or writes a page others change; it may die anywhere; a send
that was not seen may still have happened.  Correct: no approval is used twice,
`executed` is said only of what was delivered, no claim is lost, nothing
waits for ever without a reason.

**Database access** (`fb_pipeline/persistence/`).  SQLite by default, PostgreSQL
after cut-over.  `BEGIN IMMEDIATE` becomes `BEGIN` on PostgreSQL
(`db.py:307-311`), which takes no lock: what is serial on one is not on the other.

**CDP sessions and navigation** (`fb_pipeline/session/l2_bootstrap.py`).  One
tab per role, marked in the page; it outlives the worker, and the operator can
type in it.

**Activity lock** (`l2_activity_lock.py`, `l2_facebook_block_gate.py`).  A JSON
file per role with a heartbeat; browser jobs skip a cycle while a fetch is active.
Hard: check then publish, several jobs share a role file, staleness after 180 s.
Correct: a fetch and a job drive the browser together only where neither could
have seen the other.

**Telegram approvals** (`l5_telegram_hitl.py`).  `telegram_hitl_queue` maps messages
to rows; reactions approve, replies reject.  Hard: the offset is stored after the
batch, the decisions before it on other connections, so a failure replays them.
Correct: the two tables agree, a reaction is answered.

**Parallel inbox fetch** (`l3_parallel_fetch.py`, `l3_fetch_checkpoint.py`).
An orchestrator that discovers threads and up to two worker threads share one
queue of tasks; failed tasks go back for another worker, failing workers retire,
a stop event ends everybody; a fsync'd log lets a run be resumed.  Correct: no
task is lost or reported finished when it is not, the run ends, a resumed run
takes up exactly what is left.

**Inbox pipeline, integrity and QA** (`l3_pipeline.py`, `l3_fetch_qa.py`,
`l3_sync_decision.py`, `l1_fetch_integrity.py`).  State: `messages`, `threads`,
`users`, `fetch_log`.  Decides whether a thread is fetched again, merges each
snapshot of a conversation into the stored rows, and judges afterwards whether the
whole run may be trusted.  Hard: crawls reach up to different messages, ids and
times may be missing, runs stop half-way and overlap.  Correct: a message is
stored once, in its place, under its conversation; what is skipped has nothing
new; a verdict is about the run it judged.

**Inbox browser crawl** (`browser/l3_inbox.py`, `browser/inbox/`).  Goes down the
sidebar, opens a conversation and reads it.  Hard: every part of the page changes
on its own, and names are not unique.

**MAS recommendations** (`l5_mas_recommend.py`, `recommendations/route.ts`).
A job is queued, running, completed or failed; a child process drafts thread by
thread.  Hard: timeouts, kills, restarts, a regeneration half done.  Correct: an
order is answered, and never takes a seeker's draft away without a new one.

**Inbox MAS runner** (`l5_inbox_mas_runner.py`, `l5_inbox_mas_pipeline.py`).  Claims
each customer turn before the LLM runs for it, has a draft written and reviewed,
and files it.  Hard: the turn, its seq and the transcript move while the LLM
thinks; verdicts and drafts outlive the call that wrote them.  Correct: a newer turn
is not swallowed by an older claim, and only a reviewed draft leaves.

**Proactive care** (`l5_proactive_routes.py`).  Session proposals, class reminders,
post-session checklists, attendance and SLA cycles, through the same queue.  Hard:
the scheduler may die between claiming a session and drafting for it.

**Scheduler** (`l5_scheduler*.py`).  Periodic cycles, one at a time: classification,
events, reactions, care.  Hard: what was looked up for all seekers is stale when
the last one is written.

**Contracts** (`fb_pipeline/contracts/`).  Pure functions: the conversation state,
the class schedule, message times and kinds, the parsing of a classification.

**Comments, dashboard views, migrations** are not modelled: they scrape pages
that are not in the repository, only read, or run once.

How the parts interact: the proposers (MAS, scheduler, care, dashboard) insert
rows; the operator decides on the dashboard or in Telegram; the executor claims
approved rows.  All of it goes through `action_queue`.  The fetch fills `messages`, from which the MAS
runner and the classification read; both write the seeker's row.  The executor and
the fetches share one browser, through the activity lock; the executor and the
operator share its tabs.

## 2. Modules

| module | models |
| --- | --- |
| `ActionQueue` | the table and every operation on it, two steps for a transaction that reads before it writes |
| `HitlDelivery` | the executor's cycle on that table (EXTENDS `ActionQueue`), tabs, conversations, people |
| `DeliveryPromise` | what the executor promises, without queue, browser or Facebook; `HitlDelivery` implements it |
| `TelegramHitl` | the chat, the poll and its batch (EXTENDS `ActionQueue`) |
| `CareSessions` | a class session through digest, approval, drafts and attendance (EXTENDS `TelegramHitl`) |
| `RecommendationJobs` | orders on the dashboard, their engine and fallback (EXTENDS `ActionQueue`) |
| `Outreach` | the event and the reaction cycle (EXTENDS `ActionQueue`) |
| `SeekerProfile` | a seeker's row and its writers |
| `MessageStore` | the transcript of a thread under partial snapshots |
| `InboxMas` | the MAS runner on one thread (EXTENDS `ActionQueue`, `MessageStore`) |
| `DraftReview` | how a draft is written and reviewed |
| `InboxSync` | which conversations a run opens |
| `ThreadFetch` | one conversation in a tab that moves |
| `ParallelFetch` | a fetch of the inbox: worker 0, its background workers, their queue, the checkpoint and its resumption |
| `FetchCheckpoint` | that checkpoint as a file: lines a kill may tear, some of which a resume refuses |
| `FetchGate` | block gate, Fetch QA and `fetch_log` of overlapping runs |
| `ActivityLock` | the lock files of fetch and browser jobs |
| `ActionQueueProofs` | theorems of the table; the other proofs about the queue build on them |
| `HitlDeliveryProofs`, `ParallelFetchProofs`, `InboxSyncProofs` | theorems of the module they are named after |
| `CareProofs` | theorems of `TelegramHitl` and `CareSessions` |
| `OrdersProofs` | theorems of `RecommendationJobs` |
| `OfficeProofs` | theorems of `Outreach`, `SeekerProfile`, `FetchGate`, `DraftReview`, and of `MCOffice` which explores them |
| `IngestProofs` | theorems of `MessageStore`, `InboxMas`, `ThreadFetch`, `ActivityLock`, `FetchCheckpoint`, and of `MCIngest` which explores them |
| `MCOffice`, `MCIngest` | parts that share no variable, explored one at a time in one run |
| `MCHitlDelivery`, `MCParallelFetch`, `MCCareDesk`, `MCOrders`, `MCNewerTurn` | the constants of the other runs |

Where parts work on common state, a module EXTENDS the other and both move:
executor, Telegram, care, orders, outreach and MAS runner on the queue; the runner
on the transcript that crawls renumber.  `MCOffice` and `MCIngest` do not compose:
`part` says whose behaviour is explored, and the others rest.

### ActionQueue

`queue` is the table (id to row), `lastId` its sequence, `regen` the open
`replace_action` transaction of each process in `Engines` (the new row and the ids its
SELECT returned; SQLite's lock lets one be open, PostgreSQL any number),
`claim` an open `claim_next_action` transaction (the id it selected).  A row keeps
what the properties tell apart: queue, target, the slot columns of the payload,
text, snapshot, status, whether it was ever approved, delivery and refetch marks.
`IndexAdmits` is the partial unique index.  Single-statement operations
are one action; their callers' duplicate checks happen an LLM run
before the INSERT and are therefore no guard of it.

`Backend` decides whether another writer can come between the two steps:
`Unlocked` is required of every writer under SQLite and of none under PostgreSQL.

### HitlDelivery

`phase` and `step` say where the cycle is; `item`, `todo` and `seen` are its local
variables.  Each read of the page, key press and commit is one action:

| code | actions |
| --- | --- |
| `reconcile_drafts` | `ReconcileSelect`, `ReconcileMiss`, `ReconcileRead`, `ReconcileConfirm`, `ReconcileFinish`, `ReconcileClear`, `ReconcileOutdate`, `ReconcileRetain` |
| `claim_next_action` | `Claim`, `Claimed` |
| `_execute`, `prepare_draft` | `MissingSnapshot`, `Attach`, `Guard`, `Fill`, `Recheck`, `HandOver`, `Press`, `Confirm`, `GiveUp`, `BrowserError` |
| `hitl_execution_job` after `_execute` | `Settle` |
| `refresh_outdated_actions` | `RefreshSelect`, `RefreshRow`, `RefreshError` |
| `poll_telegram_updates` | `TelegramDecision` |
| the rest of the world | `Proposed`, `Regenerated`, `OperatorApproves`, `OperatorDiscards`, `OperatorTypes`, `OperatorEnter`, `MessageArrives`, `MessageDelivered`, `Crash` |

`conversation` is what Facebook holds, `outbox` what it accepted and does not
show yet (it may also have swallowed it), `composer` the text box of each row's
tab, `provenance` the table `mas_message_provenance`.  `enters` is a history
variable: Enter presses by the worker since the last approval.

Abstractions.  The snapshot of a proposal is the stable id of the last message
(`DELIVERY_SNAPSHOT_TAIL` is 1), so a position in the thread stands for it;
messages are only appended, edits and deletions are left out.  Texts matter up
to equality.  A commit that fails aborts the cycle and leaves what a `Crash`
leaves.  There is one executor (its systemd unit) and one Page.  A dry run and
logging change nothing.

### ParallelFetch

A consumer is worker 0 (the main thread of `_run_parallel_fetch`) or a background
worker (`worker_main` in a thread); `pc` says where it is, `hand` which
attempt at which thread it holds, `shared` whether that came from the queue and
has to be acknowledged, `local` a task it keeps for itself after its tab was lost.
`queue` and `unfinished` are the two halves of a `queue.Queue`; in production the
retry queue is that same queue.  `log` is the checkpoint, `saved` the database,
`marker` the row `record_fetch` writes: these three outlive the process.

| code | actions |
| --- | --- |
| `worker_main`, `_process_here` | `Get`, `PutBack`, `BeginFetch`, `Fetch`, `Record`, `Settle` |
| `worker_main` only | `Idle`, `TabLost`, `CheckUnfinished`, `CheckDiscovery` |
| `discover_threads` with `_dispatch` | `Dispatch`, `DispatchKnown`, `DiscoveryEnds`, `DiscoveryRaises` |
| Stage 2 and the report | `Drain`, `CheckPeers`, `Interrupt`, `End` |
| everything around it | `PageCloses`, `Crash`, `Resume` |

`CheckUnfinished` and `CheckDiscovery` are two steps because the code releases
the queue's lock between them.  `Fetch` commits the messages and puts a failed
task back, `Record` appends the outcome to the log: a kill, or another consumer
that is faster with the second attempt, fits in between.

Abstractions.  Threads that Stage 1 decides to skip are left out, and with them an
early exit.  `no_messages` is treated by the code as `needs_review` is, and is that
status here.  No target number of messages is given, which is the default of the
command line.  An exception out of Stage 2 other than Ctrl-C ends the process
like a kill.  `Excluded` are the names the operator excludes between two runs.
Worker loops injected by tests, with sentinels and a retry queue of their own, are
left out, and so is a log that cannot be written.

### TelegramHitl and CareSessions

`chat` is what was posted, `hitl` the status of its row, `updates` what the operator
sent, `offset` the stored position.  `poll` is the open batch: its uncommitted
writes stay in it until `PollCommit`, while `ApproveAction` and `RejectAction` take
effect at once, on a connection of their own.  `LockedOut` is that connection
waiting for the lock the poll holds: SQLite only.  `Persist` gives a posted message its row;
when Telegram's answer or that INSERT is lost, the row says "local" and no reaction finds it.

`job` is the scheduler's open job, with the rows it read at the beginning
(`OpenRead`, `AttendanceRead`), as the code holds them in a list.  `OpenClaim` is the UPDATE
by id, whatever the row is by now.  `reminded` is `reminder_log`, `attendance` its
table.  One class session is modelled; a seeker's draft and checklist question are
told apart by their queue.  `approved` is a ghost: approvals not yet acted on.

### RecommendationJobs

`jobs` is the job table, `child` the engine process of each, `server` what the web
server still does for it.  The engine is `Guarded`, `Llm`, `Insert`, `Commit`,
`EngineDone`; a regeneration is the two steps of `replace_action`, and a `Timeout`
may fall between them.  `ServerDies` forgets `server` and leaves the children
running.  Any POST or GET may claim a queued job (`ClaimJob`); `Launch` reads it and starts its
engine or its templates, and between the two the server may die.  `DatabaseFails` is a statement
that raises: inside the `try` the job fails, outside it, or when that UPDATE fails too, the row
stays `running`.

### Outreach and SeekerProfile

`cycle` holds what the event cycle has in memory: the people found for one event, as
places in the ranking, then the offers written for all events; the reaction cycle inserts as it goes.
Nothing in the code writes a live row to `event_campaigns` or `reactions`, so those
tables stay empty and the limits built on them never bind.  The delivery worker
finds rows of these cycles outdated, since they carry no snapshot.

`SeekerProfile` counts minutes; `UtcLag` is how far UTC is behind the local time
the display times are in.  `Persist` is what the crawl does to the row, `PassStart`,
`Retry`, `GiveUp`, `Verify` one classification, `ToolWrites` that of
`classify_city.py`, `Propose*` the corrections of the MAS.  `read` is a ghost: the
turns a verified classification saw.

### MessageStore and InboxMas

`store` is the sequence of rows; `seq` is a position, since every persist ends by
renumbering.  `Persisted` is `persist_thread_record`: update by id, append
what is new behind the overlap, sort by the carried time.  Time and ids of a shown
message may be missing.  Both the appending and the sorting are `Arranged`: positions of a
sequence put in the order of a relation, the relation being as shown (`AsShown`) or by
carried time with the old place as tie-break (`Earlier`).  `StoreSpec` is a transcript by itself,
with messages with and without ids; `InboxMas` adds the runner and shows ids throughout.
`GateAction` is `compute_conversation_state`.  The runner's
steps are the transactions of a cycle; what it read stays in `turn`, and crawls,
decisions and a kill come between any two.

### DraftReview

`drafts`, `verdict` and `loops` are the session keys.  A specialist that answers
nothing leaves its key (`Silent`).  In the inbox pipeline any order of calls is
possible, within the budget; in the care pipeline the order is the code's.
A draft is fit, has a wording a reminder may not have, or something no reply may have.

### InboxSync, ThreadFetch, FetchCheckpoint, FetchGate

`InboxSync`: `rows` has what is stored of each thread and the marker of its last
sync, `chats` what Facebook holds.  Stage 1 is `ScanCard` for each card, `CacheHit`
the quick look before; `DecideByMarker` is `decide_by_fetched_marker`.  `FetchTask`
stands for Stage 2.  A thread's card can move up while the scan goes down.

`ThreadFetch`: address, heading, card and panel of `tab` change one by one
(`TabMoves`), between any two steps of `process_thread_task`.  `Identified` is one look of
`verify_thread_switch`; two looks must agree.  `Persist` admits what has evidence.  Of the rows
a panel shows, some bear an identity and some do not: only the former make a `Clash`.

`FetchCheckpoint`: `lines` is the file, `ended` whether its last line has a newline.  The
records are the metadata, the tasks, their outcomes and the end of Stage 1.  A
kill inside an append (`Torn`) leaves part of the line, part of a character at its end
(names are written as UTF-8), or all but the newline.  `ResumeFile` refuses a file that does
not decode or parse, and one without metadata; a torn last line it cuts off.
`ParallelFetch` takes the log as the set of its records and so knows none of this: what it says
of a resumed run is said of a run whose file was not refused and lost no record.

`FetchGate`: `run` is a process, `log` is `fetch_log`.  `Judgements` are all outcomes
of `_qa_logic` over samples of cards; a sample is drawn anew for each judgement.

### ActivityLock

`record` is the file of each role, `held` what a process believes to hold, `step` and
`want` where it is between looking and publishing.  `beating` is a heartbeat that has
read `held` and not yet written.  `mishap` notes when a holder fell silent or its file
was overwritten, `noted` whom a process could see when it looked.

## 3. Runs

| run | question | bounds |
| --- | --- | --- |
| `queue_table` | the table under any worker: one DM per recipient, one live row per slot, what a terminal row may become; beside it what refuses an offer, what a fresh classification saw, whose row a verdict is on, which text leaves a review | SQLite; table: 2 rows, 2 recipients, 3 kinds. Outreach: 2 rows, 2 seekers and a commenter, 2 events in one city, 2 items to react to, one row brought back. Profile: 1 turn, 2 classifiers, 3 minutes. Gate: 2 runs, samples of up to 2 of 3 threads. Review: 5 calls (30 in the code), 3 attempts (the code's) |
| `hitl_one` | nothing forbidden happens to one row | PostgreSQL; 1 row, 3 messages, one crash, every decision, tab act and both modes |
| `hitl_two` | provenance with two rows of one thread; the executor implements `DeliveryPromise` | SQLite; 2 rows, 1 recipient, 2 messages, approve and re-process, both modes |
| `hitl_follow_up` | what was handed over is withdrawn, confirmed, refetched in the end | SQLite; 1 row, 2 messages, one crash, every decision and tab act |
| `hitl_blocking` | whom an approved DM waits for | SQLite; 2 rows, 2 recipients, approve and delete |
| `parallel_fetch` | no thread is fetched twice, lost, or reported done when it is not; the run ends | 2 threads, one background worker, 2 attempts (the code's), retirement after 2 failures, one excluded name, one resumption |
| `care_desk` | queue and chat agree, a reaction is answered, a session is opened once and settles | PostgreSQL; 1 session, 1 seeker, 3 rows, 1 update, one batch cut short or answer of Telegram lost, one restart |
| `orders` | an order is answered and keeps the seeker's draft | PostgreSQL; 2 orders for one seeker, reply or care, fresh or regenerated by two engines, 4 rows, one death of the web server or error of its database |
| `ingest` | a message is stored once, in its place and under its conversation; an older claim leaves a newer turn; what is skipped is excused and an early end sound; what the journal holds is found again, and which kills let it be refused; a published lock is respected | transcript: 3 messages, 4 rows. Sync: 3 threads, 2 messages or days, 2 runs. Thread: 2 conversations of one name, 2 messages, 3 changes of the tab. Journal: 2 tasks, 2 tabs, one kill. Lock: a fetch, two job processes, one kill |
| `replace_postgres` | violation: a regeneration rejects a row the worker holds | PostgreSQL; 2 rows |
| `crash_blocks` | violation: a dead worker's row blocks other recipients | SQLite; 2 rows, one crash |
| `newer_turn_hidden` | violation: a turn written during the LLM run is never looked at | 3 messages, 2 rows |

Why the bounds are enough.  A slot and a recipient relate two rows, so two
rows show a conflict; a third adds another pair, not another kind of pair, and the
theorems below hold for any number.  Three messages are the seeker's, the
sent one, and one that comes between or after.  One crash is enough to find a
row in every state a crash can leave; the second finds the same states.
`hitl_one` runs on PostgreSQL because there every interleaving is possible; with two
rows regenerations there multiply the states and break `ClaimHeld` at once
(`replace_postgres`), so the others run on SQLite, the default backend
(`l4_sqlite_store.py:870`).  `hitl_follow_up` uses the mode of the deployed unit,
`--draft-only`.  `orders` has two engines that may regenerate at once, the other runs one: what
a second open regeneration adds is a race with the first for one slot, and the theorems have
any number.

In `parallel_fetch` two consumers stand for three: what a background worker has to
fear from another one, it has to fear from worker 0 too, which takes tasks from the
same queue, and the two kinds differ in when they leave, which one of each shows.
Two threads are one to fetch and one in the queue or in a second hand; each
fetched twice makes four fetches and lets a consumer retire after two failures
(six in the code, of which only that the number is reached matters).  A second
process finds in the log whatever the first could leave there.

`NothingStranded` speaks of runs in which nobody retired.  A worker that retires puts its
failed task back and is gone a moment later; worker 0, which found the queue empty
before and looks for a living peer after, leaves that task without its second attempt.  The
run is reported incomplete and the task stays pending in the log, which `MarkerHonest`
relies on in all runs.

In `queue_table` and `ingest` the state space is the sum of the parts', not their
product.  The part `table` keeps to DMs (`OnlyDms`), the part `outreach` has the other
types.  One turn is enough for `FreshMeansRead` to fail: it relates one turn to one
verdict; the theorem has any number.  Two runs overlap or not, in every order.  Five
calls are a draft, its review, a repair and its review, and one that comes too late.

In `ingest` three messages are one before, one inside and one after a snapshot; a fourth
row is what a message without id may add.  Three threads are two clean cards, which end
Stage 1, and one below them.  Two conversations of one name are the only way to mistake
one for the other.  The names of the two job processes stand for the scheduler, which also
fetches, and the HITL worker, which does not.

`care_desk`, `orders` and `ingest` run on PostgreSQL, where transactions interleave.  Under
SQLite `ReactionArrives` is false, see below.

### What the violations say

* `replace_action` rejects the ids it read, whatever their status is by then.
  Where nothing locks the rows, one of them may have been claimed meanwhile:
  the worker goes on with a row the table calls rejected, and a second proposal
  for the same seeker is live.
* A row that is executing without a hand-over when the worker dies is the head
  of its queue for ever: the claim returns nothing while it is there, for any
  recipient, and no dashboard action accepts it.
* When a draft is there, the MAS runner files it under the largest seq of the thread
  at that moment.  A turn that was stored while the LLM ran is covered by it, and the
  thread is passed over until the seeker writes again.

### What the model shows beyond the runs

These are behaviours of the modules that no run is spent on; each was seen as a
counterexample of the property in question without its exception, or follows from the
lines named.

* On PostgreSQL one approval can lead to two presses of Enter: a regeneration rejects the row
  the worker is preparing, the operator deletes the new draft and approves the old row again,
  the worker presses, and claims the row once more (two ids, decisions to approve and delete).
* "Re-process" (`route.ts:24`) does not reset the payload: a row that was once handed over is
  approved and still marked drafted, and the claim passes over it.  `hitl_blocking` is
  therefore without re-processing.
* A background worker that finds the queue empty reads the number of unfinished tasks first
  and whether discovery is over second (`l3_parallel_fetch.py:343`); it may leave with a task
  in the queue, against the docstring of `worker_main`.  Worker 0 takes the task
  (`NothingStranded`), unless its page is closed or it is retired.
* Under SQLite a poll of Telegram holds the write lock when a decision wants to commit on
  another connection (`l5_telegram_hitl.py:335`, `359`): the batch is replayed for ever.
* A completed run with a smaller `max_threads` writes the success marker and hides an
  earlier wide run that was cut short (`EarlyExitSound` excepts it as `narrow`).
* A card without an exact time that names a past day is taken for unchanged on that
  token alone (`l3_sync_decision.py:134`; `SkipIsExcused` excepts the day of the sync).
* A skip rewrites `fetched_at` (`browser/l3_inbox.py:395`), so the retry of an incomplete
  history after 24 hours does not come while the thread is looked at more often.
* Two fetches are not kept apart by the activity lock, nor two browser jobs of two
  processes; a fetch and a job meet when both look before either publishes, or when a
  holder logs nothing for 180 s, or when a release or heartbeat touches a file that has
  become another's (`mishap`).
* A turn sent before a classification was written but stored after its thread was read
  looks read, and so does a row a MAS correction has moved to the UTC clock.
* The orchestrator may have a draft rewritten after QA passed its predecessor, and a
  corrected reminder may leave its PASS standing when QA stays silent afterwards (`late`).
* Two events in one city make the event cycle offer twice to one seeker; the second
  offer is refused and takes the rest of the cycle's offers with it.  The reaction
  cycle inserts without the check `l5_action_queue.py:58-60` asks of every caller.
* The checkpoint is decoded as a whole before a torn record is looked for
  (`l3_fetch_checkpoint.py:30`).  A kill that cuts a name inside a character makes every resume
  raise, although "A killed writer may leave only the final record torn"
  (`l3_fetch_checkpoint.py:37`) and a task without outcome is to be claimed again after a crash
  (`docs/report/inbox-worker-checkpoint-resume-2026-09-22.md:9`).  A kill before the metadata is
  written has the same effect, when no task was recorded yet.  `ResumeFindsAll` says that these
  are the only refusals where no line was joined.
* A record cut off exactly before its newline is kept as it is, and the next one is written
  onto it.  The resume after that cuts off both, or refuses the file when more follows: a task
  synced to disk is unknown to the run, where `l3_fetch_checkpoint.py:3-4` speaks of a task
  replayed at most and the report at `:22` of at-least-once.  `ResumeFindsAll` bounds the loss: the
  records of that line (`joined`), and none other, are missing from what can be read.
* A job claimed when the web server died, or whose outcome could not be written, stays
  `running` (`JobLost`).

### Fairness

`WorkerFairness`: the worker takes its steps, because systemd restarts it
(`Restart=on-failure`) and every wait in it has a timeout; an open regeneration
ends, because its process commits, fails or dies.  Strong fairness, because a
writer under SQLite is disabled while another transaction is open and waits for
it.  `ClaimFairness`, `ReconcileFairness`, `RefreshFairness`: a phase that finds
work on every cycle does it in the end, that is, no fetch holds the browser each
time the phase comes around and Facebook can be read now and then.  These are
strong, since each action is enabled only while its phase is on.  `RefreshFairness`
assumes success for a row that is visited again and again; it does not show that a
row is visited behind five that always fail (`LIMIT 5`), which is listed as
a hazard.  No person, seeker or proposer is assumed ever to act.

`FairSpec` of `ParallelFetch`: each thread takes its steps, weakly fair since nothing but
a kill disables a step for good, and every call of the browser has a timeout.
Discovery may list threads or give up in the same state, so fairness does not say
which.  Nobody has to interrupt, kill or resume a run, or close its page.

`DeskFairness`: the scheduler goes on with an open job and takes up approved sessions, the
worker polls and finishes a claim it has begun; both are loops that catch what a job raises
(`l5_scheduler.py`, `l5_hitl_execution.py`).  `JobsFairness`: an engine and the web server
go on with an order, and a queued job is polled by the page that ordered it
(`route.ts:484`).  Weak fairness is enough: nothing but the process's own death disables
these steps.  The operator is not assumed to act.

## 4. Proofs

`ActionQueueProofs` proves, for every value of the constants that satisfies the
named assumptions of `ActionQueue`:

* `TypeCorrect`: `QueueSpec => []QueueTypeOK`;
* `OneDm`: `QueueSpec => []OneDmPerRecipient`, on both backends;
* `OneLive`: `QueueSpec => []OneLivePerSlot`, on both backends;
* `FinalUnlessReopened`: `QueueSpec => TerminalOnlyReopened`, under
  `Backend = "sqlite"`; on PostgreSQL it is false (`replace_postgres` shows how).

The inductive invariant `QueueInv` is the type, the two safety invariants and two
facts about open transactions.  `OneDmPerRecipient` alone is not inductive:
between the claim's SELECT and its UPDATE the selected row must still be free
of a rival.  `ClaimClear` says so, and holds because nothing but a claim makes a row
executing and there is one claimer.  `PendingRegen` says that the new row of an open
regeneration is a pending one, so that inserting it makes nothing executing.
Each action has its own lemma; they share lemmas on what each kind of UPDATE and INSERT does to
the statuses and to the index.  `SerialWriters`, at most one transaction is open,
is what SQLite adds for the last theorem.

`HitlDeliveryProofs` builds on it, for any number of proposals, recipients, messages and crashes.
`TableStep` shows that every step of the executor and of the people around it is a step of
`QueueNext`, or a refetch that fails and leaves its row pending, so the table's invariant
carries over.  Three inductive invariants follow, the second and the third on top of the first:

* `BaseInv`: the table's invariant, the types, and a row in hand whenever one is worked on.
  It gives `ExecutorTypes`, `ExecutorOneDm` and `ExecutorOneLive`, on both backends, and
  `ExecutorFinal` under SQLite: what a refetch writes late is no status.
* `HeldInv`, under `Backend = "sqlite"`: what an open transaction has read is still so when it
  writes (`RegenUndecided`, `ClaimReady`), an approved row starts with no Enter counted, and a
  row in preparation has none.  It gives `ClaimKept` and `OneEnter`.
* `DeliveryInv`, on both backends: once the worker has seen its text confirmed, the text stands
  right behind the message the proposal answers, and stays there since threads only grow.
  It gives `ExecutedDelivered` and `ProvenanceRight`.

`PromiseKept`, under SQLite, is the refinement: `Spec => KeepsPromise`.  An approval maps to a
`Grant`, a refusal to a `Revoke`, the UPDATE of a claim to a `Take`, Enter to an `Attempt`, the
end of a row to a `Release`, an INSERT to a `Write`; everything else leaves the promise's
variables alone.  `HeldInv` is what makes Enter an attempt on a held, unattempted message, and a
regeneration a retirement of messages not yet taken.  `AllDms` adds that the table holds nothing
but DMs, so that the claim's `NOT EXISTS` sees every held row.

On PostgreSQL `HeldInv` is false, and with it `ClaimHeld`: a regeneration rejects by id a row the
worker holds (`replace_postgres`).

`ParallelFetchProofs`, for any number of threads, workers, attempts, kills and resumptions, rests
on one inductive invariant of five parts, each using those before it:

* `Shape`: the types, and a task in the hands of every consumer that is past the queue.
* `Balanced`: `unfinished_tasks` is the length of the queue plus the tasks taken from it and
  not acknowledged.  It gives `FetchTypes`: the count never falls below zero.
* `OneCopy`: a thread still to be fetched is in the queue or with one consumer, once, and the log
  does not call it persisted.  It gives `NoDouble`.  A consumer that has fetched and failed
  is no longer counted, since its next attempt is already in the queue.
* `Truthful`: an outcome in a hand, in the log or among the results agrees with the database,
  and discovery has passed no thread by.  It gives `MarkerTrue`; that worker 0 reports only after
  `discovery_done` comes from `Balanced`.
* `Lasting`, while nothing stopped, closed or wore out the run: every thread that is due an attempt
  (a first, or the next after a failure) has that one or a later one queued, in a hand or as
  its outcome (`Kept`), so a late first attempt never hides a second; and whoever put a
  task back after worker 0 found the queue empty is still there (`Drained`).
  `NothingLost` follows at the end of the run.  A worker may leave between reading
  `unfinished_tasks` and `discovery_done`, but it read zero, which by `Balanced` means an empty queue.

`OfficeProofs`, of `Outreach`: `OnlyNewsRefuses` proves `OutreachSpec => []RefusedOnlyByNews`, on
the table's proofs.  A row never changes its target or queue, and what an offer remembers lies in
the past (`OffersOfPast`).  So a step of the table revives nothing, or brings a row back and
counts it, or issues an id no offer has seen.

`OfficeProofs`, of `SeekerProfile`: `FreshIsRead` proves `ProfileSpec => []FreshMeansRead`.  Added to it are
that no turn lies in the future and that what a classifier read is stored.  Storing turns
moves `last_interaction` to the latest exact time: past the verdict, and the row is stale,
or every such turn was sent before.

`OfficeProofs`, of `DraftReview`: `OnlyReviewed` proves `ReviewSpec => []OnlyReviewedLeaves`.  Needed is what a
PASS in the session is worth before it is used (`PassKnown`): it is of the newest draft, or
shows as `late`; and that, where the order is fixed and no PASS is corrected, there is none
before the review (`PassInOrder`).

`OfficeProofs`, of `FetchGate`: `OwnVerdict` proves `GateSpec => []VerdictOfOwnRun`.  Every row was written
between the start and the end of its run, and a judge that did not write it had started
by then and ended after (`WrittenInside`, `JudgedInside`): neither run is over before the
other starts.

`OfficeProofs`, of `MCOffice` as a whole: `OfficeTypes`, `OfficeSafe` and `OfficeFinal` prove of
`OfficeSpec` every property the run `queue_table` checks, for all constants.  To the table the
outreach routes are proposers like any other, and what is around them operators and a
worker (`OutreachOnTable`), so the table's invariant holds whichever part works on it.
The bounds among the types need counting: a run takes a timestamp when it starts and with
each of the two rows it may insert, so the runs past the scrape and past the end bound the
log (`Counted`); every draft takes a call of the budget or an attempt of the repair loop
(`DraftsBounded`).

`IngestProofs`, of `ThreadFetch`: `StoredRight` proves `FetchSpec => []StoredWhereWritten`.  Added is that
once the first read was taken and nothing contradicted it, all its messages are of the
identity the task is bound to, whatever the tab shows since (`OwnRows`).

`IngestProofs`, of `ActivityLock`: `Respected` proves `LockSpec => []PublishedIsRespected`.  As long as
`mishap` is empty, a role that is held has a fresh record naming its only, living holder
(`RecordsTrue`), so a process that finds the other role free or stale has noted
nobody, and so has everyone who holds a role or is about to publish one (`NobodyNoted`).

`IngestProofs`, of `FetchCheckpoint`: `ResumedWhole` proves `CheckpointSpec => []ResumeFindsAll`.
`_apply` keeps the best outcome of a task whatever the order of its records, so reading a file
comes to a function of the set of its records (`Known`, by `ApplyKnown`).  `Kept` says which
records those are: what was reported written and not joined is among the lines that can be read.
It is inductive because a run that writes onto a line without newline writes onto a record
(`OntoRecord`), which then is what is lost: a resume cuts off anything else.  `WholeFile` adds that
as long as no line was joined, only a last line can be damaged, and that only while nobody has the
file open.  So a file whose metadata was reported is then refused for a last line that does not
decode, and for nothing else.  `Parsed` reads the lines as a set and `mem` is built record by
record; the proof shows the two agree.

`InboxSyncProofs`, for any number of conversations, messages, runs, failures, kills and resumptions.
`SyncInv` is the bookkeeping: messages are numbered as they were sent, the card a row or a
task keeps shows a message of its own conversation, a complete row lacks nothing from before the
day it was last synced.  It gives `SkipsExcused` (`SyncSpec => SkipIsExcused`).
`FrontierInv` follows the threads that hide a message, as long as cards have exact times and no
skip was wrong.  The sidebar stands in the order of the newest messages, so such a thread is above
every one whose marker shows its newest message: among all after a run that got
through (`Settled`), among those not yet seen in a scan that may end early (`ScanAllowed`).
Whatever a run does not get to is below, or among its tasks, or on top again
(`ScanLeaves`, `DrainLeaves`, `JournalLeaves`).  Thread 1, whose marker may be older than exact
times, can make one clean card too many, and two are needed: hence `EarlyExitIsSound`.

`CareProofs`, on both backends: the invariant adds to the types that a decision in
`telegram_hitl_queue`, or one an open batch is about to commit there, concerns a row that is not
pending (`DecisionsLeft`), which gives `TablesAgree`; that an approved session proposal has an approval no
cycle has used (`ApprovedKnown`), and so do the sessions the open cycle still holds, once each
(`JobApproved`), which gives `OpenedOnApproval`.  `Moves` is what any database call of the desk does to
the table: it adds at most one undecided row and makes none undecided again.
The desk does not implement `QueueSpec`: the open cycle sets a session executing by id, whatever
became of the row since it was read (`Reclaims`).  `TableInv` adds the table's own invariant, that the cycle holds session
proposals only (`SessionsHeld`), and that nobody here regenerates.  Then every other call is a step of
`QueueNext` (`SchedulerSteps`, `OtherSteps`), and a reclaim asks the unique index and concerns no DM, so
`DeskKeepsQueue` proves `OneDmPerRecipient` and `OneLivePerSlot` of `DeskSpec`.  `TerminalOnlyReopened` is lost.
`DeskDecidedStays` says by how much: a decided row is brought back by the operator, or by the cycle
that read it as approved and goes on to draft it.

`OrdersProofs`, of `RecommendationJobs`: `UsesQueue` is a refinement, `JobsSpec => QueueSpec`: each step of an
order, an engine or the server is one the table allows, with the typing of orders (`OrdersTypes`)
to show that what they insert is a proposal.  `RegenMatches`, that the rows an open regeneration is about to
reject are of the slot its new row takes, gives `KeepsDraft`, an action property, on both backends.
`OrdersKeepQueue` states what the refinement carries over.

`IngestProofs`, of `MessageStore`: rows are copies of messages of the conversation (`Copies`), a snapshot
shows each message once and in order (`ReadOnce`), a message with id stands in one row
(`OnceEach`), and what was shown with its id is stored (`KnownStored`).  `Arranging` is the lemma on
sorting: `Rank` numbers the positions of a finite set without gaps, by a strict total order, so
`Arranged` is a permutation, ordered by the relation.  Carried times of such rows grow with the
conversation (`CarriedTime`), therefore the sort does not undo it.  This gives `NeitherLostNorDoubled` and
`SeqFollowsTime` for `StoreSpec`.

`IngestProofs`, of `InboxMas`: two refinements, `RunnerUsesStore` (`MasInboxSpec => StoreSpec`) and
`RunnerUsesQueue` (`MasInboxSpec => QueueSpec`), so that the theorems of both hold of the runner.  For
`NewerStaysEligible` a mark is less than the number of messages claiming runs have read
(`MarkBounded`), all of which the table keeps: a message nobody has read is one more, and as the newest row
stands above the mark.  That count survives any renumbering, which a comparison of seqs would not.

`IngestProofs`, of `MCIngest` as a whole: its parts share no variable and one moves at a time, so what
is seen of a part is a behaviour of its own specification (`PartsBehave`).  `IngestTypes`, `IngestSafe` and
`IngestExcused` prove of `IngestSpec` every property the run `ingest` checks, for all constants.
The types rest on more than shapes.  `SyncTypes` needs that a scan that goes on has seen one clean card at
most (`Counted`).  `TabIsTyped` needs that work past the click has a task and work past the check an identity,
both of them conversations (`TaskNamed`).  `CheckpointTypes` needs that a run knows only of its tasks
(`RunTypes`): applying any record the file may hold keeps it so.

The assumptions are those the modules name; a passing run evaluates each of them.

Model-checked only, and why:

* every liveness property (`StaleDraftWithdrawn`, `ManualSendConfirmed`, `RefetchServed`,
  `OnlySameRecipientBlocks`, `RunEnds`, `SessionSettles`, `ReactionArrives`, `JobSettles`): they rest
  on fairness, thus on ENABLED, which the prover does not have.

Every other property of a passing run is stated by a theorem.

## 5. Not modelled

* Scraping: how cards, bubbles, times, names and phone numbers are found in
  Facebook's markup.  The pages are not in the repository.
* Texts: prompts, wording of drafts and notices, parsing of display times, keywords of
  message kinds, the class schedule.  No property here tells their values apart.
* The warm-up cycle: the scheduler's list of routes does not contain it.  The sequential
  `process_single_thread`: nothing calls it.
* The comment pipeline, dashboard views, migrations and unit files; the trace of LLM
  calls, which is read by people only.
* SLA alerts (sent before their row is inserted, so a crash sends twice), the freshness
  gate over `fetch_log`, admission of care commands by their wording.
* In modelled parts: dry runs, worker loops injected by tests, a checkpoint that cannot
  be written, `target_total_messages`.

## 6. Plan

1. `ParallelFetch` over `FetchCheckpoint`: the log as lines in place of a set of records.
2. The SLA cycle with its crash, and the freshness gate over the rows of `FetchGate`.
