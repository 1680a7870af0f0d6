# PIE portal: a formal model

TLA+ modules, TLC configurations and TLAPS proofs for the parts of this repository where
several processes, threads or transactions touch the same rows. The code is a FastAPI
application (`src/backend/app`) that several uvicorn processes and a separate worker
process run over one database; a React front end polls it. What it computes (margins,
benchmarks, diagnoses) is deterministic arithmetic with good unit tests. What is hard to
test is *when* things happen: who may start a pull and what it leaves when it fails, who runs
a message, who appends to the audit chain, who may replace a key, what a quote says when the
answer to its send is lost, and what remains when one of them dies half way.

All paths below are relative to `src/backend/app/` unless they begin with `src/`.

Contents: 1 inventory, 2 modules, 3 runs, 4 fairness, 5 proofs, 6 what the runs found,
7 limits of the models, 8 plan.


## 1. Inventory

### How the parts interact

    browser --HTTP--> uvicorn process (x2 or more)       worker process (x1 or more)
                      |  request threads                 |  start_worker: reap, prune, drain
                      |  scheduler thread --tick--+      |  heartbeat thread per message
                      |                           |      |
                      +--- jobs.start_sync <------+      |
                      |        | insert sync_runs        |
                      |        +--dispatch: thread ---> run_job --> execute_sync (the pull)
                      |        +--dispatch: queue.enqueue --> queued_messages --> run_job
                      |
                      +--- audit.append inside every audited transaction
                      +--- keys.ensure_key / cipher_for inside pulls, recorded calls, erasure
                      +--- approvals, then create_estimate: gate, find, POST, settle, record
                      |
                  one database (PostgreSQL at READ COMMITTED; SQLite in development)

Nothing is shared between processes but the database. Within a process the shared state is
`ingestion/jobs._start_lock`, the rate limiter, the caches and the catalogue service. A
request's session is committed when its response succeeds (`db.get_session`).

A pull reads the source (Zoho) page by page, writes the read model and the event log in one
session, and commits at its phase boundaries; the resume cursor is a table of its own in the
same session. A quote leaves through the same source client, whose answers may be lost.

### Components with a concurrent protocol

| Component | State | Operations | What is hard | What makes it correct |
|---|---|---|---|---|
| Message queue `messaging/queue.py`, `messaging/worker.py`, `worker.py`, retry endpoint in `routers/internal.py` | `queued_messages` rows; each worker's message in hand and claim budget | enqueue, claim, heartbeat, complete, fail, reap_stale, requeue, prune; drain_once, run_message, the loop | outcome writes by id alone; two reapers; kills, stalls, handlers that kill | one runner per message, but for finding 1; runs bounded; a key's messages bounded; no receipt for unfinished work; everything is settled |
| Lease and scheduler `leases.py`, `ingestion/scheduler.py` | `process_leases` row; each loop's `held` | acquire, release, tick, start, stop | clock read before the UPDATE; lease against pass length; killed holder | one ticker; cadence kept; somebody ticks |
| Audit chain `trust/audit.py` | `audit_entries`, `audit_chain_heads` | append, verify | lost positions, savepoints, the anchor | chain always verifies; entry if and only if change; append-only; its verdict is true |
| Sync jobs `ingestion/jobs.py` | `sync_runs`, `_start_lock` | start_sync, start_all, active_run(s), dispatch, run_job, execute_sync | two processes; reaping; a queued run revived | one pull per connection; verdicts final in threads, settled in the end behind the queue; nothing stuck |
| Tenant keys `trust/keys.py`, `vault.py`, `erasure.py`, `rekey.py` | `tenant_keys` row, vault rows, receipts, the process's master key | ensure_key, open, destroy, reissue, backfill, erase | the insert race; reissue against destroy; a cipher held open; a master key rolled out process by process | nothing on file is orphaned; destroyed stays destroyed; a working key is not replaced; the vault becomes readable again |
| Approvals `approvals.py` | `approval_requests`, policy | raise, decide, withdraw, record, gate | two deciders; resubmission against decision; gate against send | nothing below the floor goes out on a price nobody was shown, but for the two gaps of section 6 |
| Memberships `memberships.py`, sessions in `authz.py` | memberships, users, sessions | invite, set_role, remove | two owners at once | an organization keeps an owner |
| Quote workspace and sending `routers/quote.py`, `commercial/quote_service.py`, `ingestion/write_settle.py` | quotes, snapshots, `quote_documents`, `quote_outcomes`, the source's documents | save, gate, pre-flight, POST, settle, record, move the outcome, answer | an answer that was lost; a press that dies between two of its commits; amendments | one document per reference; none forgotten; a row says what was sent; the outcome follows |
| Decisions and outcomes `decisions/*`, `commercial/outcome_tracker.py` | decisions, snapshots | generate, supersede, accept, measure | two acceptances | one baseline per decision |
| Value ledger `attribution/ledger.py` | `value_events` | record, supersede | superseding race | one live event per key |
| Entitlements `entitlements.py` | plan, requests, trials | request, decide, claim | double decision | a request is decided once |
| Source pulls `ingestion/sync.py`, `ingestion/zoho_client.py`, `repositories.py`, `connections.py`, `oauth.py` | resume cursor, read model, event log, coverage, grants | list, skip, upsert, sweep, finish, fail | the source moves under the pages; a pull that fails or is killed between commits; marks that rise while windows are read | the cursor never passes what was not read; the log holds no reading the rows lack; a deletion has a cause; a full listing mirrors the source |
| Events and state `state/*` | event log, state rows | append, fold, replay | incremental fold against replay | replay equals the fold |
| Identity links `identity/*` | link rows | ingest, confirm, reject | concurrent confirmation | links are not merges |

### Components without one

Commercial arithmetic (`commercial/compute.py`, `commercial/insight/`,
`commercial/quote_diagnosis/`, `signals/`, `monetization/`, `src/backend/incentive_engine`),
decoders and catalogues (`decoding/`, `catalog.py`, `pie_service.py`, `retrieval/`,
`attributes/`, `master_health/`), prompts and providers (`ai/`), disclosure and break-glass
access (`trust/disclosure.py`, `trust/access.py`), caches and the rate limiter,
observability, onboarding and operator commands, routers, the front end, migrations and
deployment. They are listed with reasons in `PROJECT.json`. `pie-parser` is a git submodule
and empty here.


## 2. Modules

| Module | What it is |
|---|---|
| `MessageQueue` | the queue, the worker loop and the retry endpoint |
| `MCMessageQueue` | its instances: which messages share a dedupe key |
| `SyncScheduler` | the lease and the scheduler loop |
| `MCSyncScheduler` | its instance: one cadence for every organization |
| `AuditChain` | one tenant's audit chain, its writers and its verifiers |
| `SourcePull` | one connection's pull of invoices, and the books it reads |
| `MCSourcePull` | its instances: what the first books say |
| `TenantKeys` | one organization's data key and every transaction that meets on it |
| `QuoteSend` | one quote line: approvals, the send, its settlement and its record |
| `MCQuoteSend` | its instance: the four settings of the run |
| `AppendOnlyLog` | the abstract specification `AuditChain` implements |
| `WorkQueue` | the abstract specification `MessageQueue` implements |
| `RunLedger` | the abstract specification `SyncJobs` implements in thread dispatch |
| `SyncJobs` | one organization's pulls |
| `MCSyncJobs` | its instances: starters spread over two processes |
| `...Proofs` | theorems and proofs of the module they extend; those of `SourcePull` are in `SourcePullProofs` and, about what a listing accounts for, `PullMirrorProofs` |

In every module a database commit is one action, and so is each read whose result the code
acts on in a later statement; what was read is a variable of the process that read it. A
definition that begins a comment with "mutant:" is a faulty variant of the one that follows
it; no run and no theorem uses it. It exists to show that a property notices that fault.

### MessageQueue

A row is `status`, `attempts`, `claimedBy`, `cold`, and its place in the claim's ORDER BY.
`cold` stands for "heartbeat_at is older than STALE_AFTER". `due` and `ahead` stand for
`available_at`: which messages are due, and which of those fell due earlier; that is all
`ORDER BY available_at` can see. Equal instants are ties, broken either way.

A worker's `pc` follows the loop in `worker.start_worker`:

    top --ReapNothing----------------------> claiming --EndPass--> top
    top --ReapSelect--> reaping --ReapWrite--> claiming
    claiming --ClaimSelect--> selected --ClaimWin--> running or unknown
                                       --ClaimLose--> claiming
    running --HandlerReturns--> returned --Complete--> claiming
    running --HandlerRaises--> failing --FailRead--> failed --FailWrite--> claiming
    unknown --FailUnknown--> claiming
    any --Crash/HandlerKills--> down --Restart--> top

- `claim` is a SELECT and a conditional UPDATE, hence two actions and `ClaimLose`.
- `complete` and `fail` name the row by id only, so they write whatever the row has become.
- `reap_stale` reads ORM rows and commits them by primary key: `ReapSelect`, `ReapWrite`.
  If one was pruned meanwhile the flush fails and the pass is over (`Writable`).
- `requeue` is two actions as well: the endpoint loads the message, then writes it.
- `heartbeat` runs while the handler does and during `fail`, as `_Beating` does.
- `GoCold` is the time that passes for a message nobody holds; `Stall` is a worker that is
  alive but silent for as long, and is budgeted.

`WorkQueue` says what a durable queue promises: a message is in one worker's hands at a time,
what a worker records is how its run ended, what a dead worker held is handed out again, and
nothing leaves before it is done or its chances are spent. `Hand` and `Back` map a worker's loop
to it: a message is in hand from the UPDATE that won it to the write of its outcome, and has
come back when the handler has returned. Selecting, looking and reaping's reads are stutters.

### SyncScheduler

Time is relative and so unbounded: `left` is `expires_at - now`, `age` is how long ago a
process read the `now` of its pass, `started` how long ago each organization's newest run
began. `Elapse` moves all of them; a pass lasts at most `MaxPass`. `FreeToTake` is the WHERE
clause of `acquire`'s UPDATE with the `now` it was given, not the present one; `LeaseLeft`
is `expires_at` counted from it. `PassFails` is the loop's `except`, which keeps `held`.

The assumption `PassFitsLease` (`MaxPass < TTL`) is what the comment on `LEASE_TTL` claims.
Nothing in the code enforces it; every theorem about the lease rests on it.

### AuditChain

`entries` and `anchor` are what is committed; `made`, `pend` and `moved` what a transaction
has done and not committed. `ReadHead`, `Place` and `Lose` are the savepoint of one attempt
of `append`; `Refused` are the two unique constraints; `Waits` is what PostgreSQL does with
an insert whose key an open transaction holds. `Linked` and `Verdict` are `verify`, reduced
to the sets of rows it accepts; `Walk` and `Judge` are its two statements. The HMAC is
represented by the change it signs, so an edited body cannot be expressed and the
answer `SIGNATURE` is outside the model; deletion, reordering, forks and truncation are inside.

`AppendOnlyLog` says what a trail promises. `ChainLog` maps the rows to a sequence.

### SyncJobs

`Ask` takes `_start_lock`; `Look` is `_active_for_start` with the reaping it flushes;
`HandBack`, `Insert`, `InsertRefused` and `Raise` are the ways out of start_sync's loop;
`Dispatch` happens after the commit, without the lock. `Clash` are the two partial unique
indexes. `Poll` is the status screen's `active_runs`, which reaps outside any lock. `Load`
and `Begin` are `run_job` and the first commit of `execute_sync`; they are apart because
run_job reads the row and writes a status later without looking at it again. `Queue` chooses
the dispatcher: a thread of the same process, or a message any process may take.

`RunLedger` says what the history of pulls promises: a run is opened where none is active, in
the place of abandoned ones if need be; it is queued, running, then has a verdict that stands;
and only a run nobody answers for is given up. `Answered` maps to it: the runs with a job at
work, or whose call has still to dispatch them.

### SourcePull

The books are `src`: each document's status, the window its date falls in, its
last_modified_time and its lines; `Create`, `Edit` (which may move it to another window) and
`Delete` go on while it is read. The store is kept twice, `rm` as the run's session sees it
and `db` as committed: held rows, the live readings of each document in the event log in the order
they were recorded, the resume cursor.

    idle --StartRun--> window --OpenWindow--> listing --NextPage--> ... --CloseWindow--> window
    window --Finish--> idle       listing --Refused--> idle       any --Fail, Kill--> idle

- `StartRun` is `execute_sync` with `service_for`: nightly (a mark and the resume index),
  reconcile (the index, no mark) and rebuild (neither).
- `OpenWindow` is `arm_incremental_listing`: the mark is the cursor's high water *as it stands
  then*, and only when the window lies in what an OK run has covered.
- `NextPage` is one page by offset. The page is a set of rows; `IsNext` takes them in the
  listing's order, newest change first under a mark and by date otherwise. Documents that
  change in the meantime move to another place of the listing, so a row may be met twice or
  not at all.
- Per row: `StopAtMark` (the early stop), `Resumed` (the skipper), `PassOver` (void), `Fetch`
  (detail, upsert, supersede and record, and the cursor unless `normalize_invoice` refuses it),
  `DetailGone` (404 between listing and detail). `Recorded` keeps what supersede's UPDATE cannot
  see: sessions do not autoflush (`db.py:162`), so a reading of the same commit is not in the
  database yet and stays live beside the new one.
- `CloseWindow` is `_mirror`'s sweep, when the listing is complete, with the commit of the
  phase boundary. `Refused` is a flush refused for two inserts of one key. `Finish` commits
  what the windows read and closes the run OK; `Fail` commits what was read and closes it
  PARTIAL; `Kill` keeps only what was committed.

The history variables `whole`, `quiet`, `last`, `away`, `slipped` and `looked` record what the
books did while they were read; the properties need them and no action looks at them.

### TenantKeys

One row means one lock. `draft` is the row as the transaction holding `lock` will leave it,
`vlock` says which transaction has written an entity's vault row. A data key is a number in
order of minting and a ciphertext is the number it was made under. Jobs are `provision`
(jobs.start_all's ensure_key), `backfill` (vault.backfill), `record` (a call or a document
stored), `erase` and `rekey`.

- `Miss`, `Insert`, `LoseInsert` are `ensure_key` with its savepoint; `Open` is `cipher_for`.
- `Put` is `vault.put`, an entity at a time in the order a query without ORDER BY returns, so
  two backfills may deadlock: `Victim` is the one the database rolls back.
- `Ask`, `Aim`, `Destroy` are the erasure; `Inspect`, `Replace` are `rekey.main --reissue`.
- Each write sends only the columns it changed (`Blanked`, `Rewrapped`) and lands on whatever
  the row has become.
- `Commit`, `Abort`, `Deploy`, `Retire` are the end of a transaction and the rollout of another
  CREDENTIAL_ENCRYPTION_KEY, one process after another.

### QuoteSend

Three kinds of actors meet. Sellers `Look` at the newest open request and then `Raise`,
`Withdraw` or `Record` (a snapshot that releases the request) or `GiveUp`. Approvers `Show` a
request on a screen, `Load` it in the deciding call and `Decide`; both write by primary key
only the columns they changed. The press is one send:

    idle --Plan--> assessed --Judge--> cleared or idle
    cleared --RecordMark--> recorded (marked by hand)   --PreFlight--> posting or landed
    posting --Post--> landed    --PostLost--> unsure    --Refused--> idle
    unsure --SettleFound--> landed   --SettleNone--> idle   --SettleFails--> idle (UNVERIFIED row)
    landed --RecordDocument or RecordFails--> recorded
    recorded --ReadOutcome--> noting or idle    noting --WriteOutcome, OutcomeTaken--> idle
    any --Crash--> idle

`Plan` chooses the revision (`NextRevision`, `Retrying`) from the rows on file; `Judge` is the
gate, which reads the newest snapshot of the line; `Found` is the search by reference that comes
before every POST and settles a lost one. `Answer` is the customer's. `Reprice` is any save of the
quote: `save` checks no version. `rows` keeps with each row how its document was come by;
`how`, `shown`, `moved`, `noted` and `cut` are history.


## 3. Runs

| Run | Instance | Properties | Shows |
|---|---|---|---|
| `queue_steady` | 2 workers, 2 producers, 1 retry, 3 messages of one key (one of unknown topic), 2 attempts, drain limit 2, 2 tries per claim, prune on | ExclusiveRun, InFlightBounded, IsWorkQueue | with nobody dying or stalling, the claim query alone keeps workers apart, producers that race leave no more messages of a key than they are, and the queue implements `WorkQueue`, across prune and retry |
| `queue_faults` | 2 workers, 2 messages (one poison), 1 kill, 1 stall | DoneMeansRan, GivenUpOnlyWhenSpent, OverrunBounded, Settles | zombies and reapers may write over each other and yet never issue a false receipt, give up early, hand a message out without end or keep it for ever |
| `scheduler` | 3 processes, 1 organization, TTL 3, pass up to 2, cadence 2, 1 failed pass | OneTicker, LeaseOutlivesTick, CadenceKept, SomebodyTicks | one ticker whatever is stopped or killed |
| `audit_chain` | 3 transactions, 1 verifier, 4 changes, up to 2 per transaction, 3 attempts | ChainVerifies, ChangeIffEntry, RemovalSeen, IsAppendOnly, AppendEnds, VerdictIsTrue | lost races and rollbacks leave a chain that verifies and implement the abstract log; whichever rows are taken away, `verify` objects; ok vouches for every committed row |
| `sync_threads` | 3 starters in 2 processes, 1 company and the all-companies scope, 3 runs, 1 kill | OnePull, LockExcludes, IsRunLedger, NothingStuck | thread dispatch: no overlapping pulls; `RunLedger` implemented, so no rewritten verdict and nothing given up that somebody works on; no connection held by the dead |
| `sync_queue` | 2 starters of one process, 2 processes that take messages, 2 runs, 1 kill, 1 stall, insert loop of 1 | EndsForGood | reaped, revived, pulled again and written over, a run has one verdict in the end |
| `pull` | 3 documents, 2 windows, pages of 1, 2 pages, clock to 4, 1 fault | CursorBehindRows, LogWithinRows, CoverageIsReal, FullListingMirrors, FullListingSweeps, RetireNeedsCause, SecondReadingNeedsCause, Healed | cursor, rows and log agree in the session and as committed; deletions and second live readings have a cause; a quiet full listing is a mirror; the weekly one heals the rows nightly pulls miss |
| `tenant_keys` | 2 sessions, one of them an operator's, 2 entities, 2 master keys, 3 data keys, 1 fault | NoOrphanCiphertext, ErasedStaysUnreadable, ReceiptIffDestroyed, WorkingKeyKept, VaultHeals | pulls, erasure and recovery on one key while the master key is rolled out |
| `quote_send` | 1 seller, 1 approver, four settings (below) | OneDocument, NothingForgotten, RecordIsTrue, SentAsShown, OutcomeFollows | what may go out, and what is known of it after lost answers and dead presses |
| `queue_two_reapers` | 2 workers, 1 message, 1 kill | OneRunner (violated) | finding 1 |
| `sync_overlap` | 2 starters of one process, 2 runs, no fault | LockExcludes (violated) | finding 2 |
| `pull_nightly` | 2 documents, 2 windows, one page of 2, clock to 4, no fault | NightlyReads (violated) | finding 3 |

Type invariants are in no run: each module's is a theorem (`TypeCorrect`), which
says it for every value of the constants.

Bounds, and why they suffice. Two workers give every race for a row; what a third could do
to that row is what either of the two can do, and the proofs cover any number where they
apply. Two attempts is the least for which "handed back" and "given up" differ. Two tries
per claim let a claim be lost and tried again. One kill and one stall are enough for a
zombie, a reaper and a new owner to meet. Three scheduler processes give a holder, its
successor and a late third; a pass of all but one unit of the lease is the tightest the
assumption allows. Three transactions let one lose to two others in turn; a transaction with
two entries is what holding rows while waiting needs. Three runs let a reaped run, its
successor and a late third coexist. The refusal loop is one in `sync_queue`, whose property
concerns what happens to a run once it is inserted; `sync_threads` has the code's three. Two
producers and one key are the race between `enqueue`'s look and its insert.

`pull`: three documents of two windows put two into one window, so a page of one row leaves a
second page for the listing to slip on; two pages of one row make a window of three exceed
ZOHO_MAX_PAGES, so truncation happens; one stamp beyond those of the initial books is one
change while a run reads; an empty body is the document `normalize_invoice` refuses. One of the
first books' documents is such a one: every run reads it again, so it is the one a slipped page
shows twice without a refused flush, and two readings of it stay live.
`pull_nightly` needs two windows, an edit in each, and nothing else. `tenant_keys`: two
entities are what two backfills need to deadlock; three data keys are a first, a recovered one
and one minted by a loser; the one fault is a rollout or a lost transaction, and `gone` shows
both recoveries and erasures in its reachable states. `quote_send` divides its budgets over
four initial settings rather than multiplying them: prices 1..3 with floor 3 and one request;
two requests; three rows with two faults; two rows with three faults. The first two are about
who may let a price pass and write nothing, the last two about what sends leave behind.

`CHECK_DEADLOCK FALSE` is said where the system may really stop: `audit_chain` runs out of
changes, the `sync_` runs out of run ids, `quote_send` out of rows and requests. All are budgets
of the model. The queue, the scheduler, the pull and the key must never stop, so there deadlock
is checked.

`queue_steady` is reduced by symmetry: workers are alike, and so are producers and the two
messages that have a handler; it checks no liveness, and nothing in the module chooses among workers or messages.

Each property of a passing run has a mutant in `PROJECT.json`: a plausible bug (a status
missing from an UPDATE, a supersede that is not called, an anchor left behind, a reaper
that ignores heartbeats) under which TLC finds that property violated in that same run.


## 4. Fairness

- `MessageQueue`: a worker's next step or, when it is down, its restart (compose's
  `restart: unless-stopped`); a message's backoff that elapses or its heartbeat that ages.
  Weak; the two halves of each are never enabled together. Handlers are assumed to end. Nothing
  is assumed of producers, operators, kills or stalls. The kills of a poison handler are its
  only outcome, and still `Settles` holds.
- `SyncScheduler`: time passes, a running loop takes its next step, runs end. Weak. Stops
  and kills are free, so `SomebodyTicks` is about behaviours in which some process stays;
  failed passes are budgeted, since a loop whose every pass fails ticks never.
- `AuditChain`: strong fairness of `append`'s step, because PostgreSQL queues those who
  wait for a lock: an insert that is enabled again and again is granted. Weak for the end of
  the transaction once `append` has answered.
- `SyncJobs`: weak for calls and jobs; strong for `Poll`, since the status screen is open
  and asks every few seconds while `idle` comes and goes. `NothingStuck` needs it: nothing
  but a later look at the table reaps an abandoned run, which is what the code says too. Behind
  the queue (`EndsForGood`) weak fairness of a run's job includes its message being taken again
  after its worker died, which `Settles` of `MessageQueue` grants.

- `SourcePull`: a run under way goes on (weak fairness of `PullStep`; the source may change up
  to MaxClock; nothing is assumed of failures and kills). Strong fairness of the reconciliation
  over the whole history, since sync_all.py says "Run it weekly" and other runs come between.
  Nothing is assumed of nightly pulls. `Healed` needs the reconciliation: nightly pulls alone
  do not heal (finding 3).
- `TenantKeys`: strong fairness of each session's steps (the database queues who waits for a row,
  and statements are answered), and of a backfill and an operator's look at the keys under the
  credentials' master key. `VaultHeals` excuses the tenant that is erased and the rollout after
  which nothing runs under that master key.
- `QuoteSend`: none. A press that is lost is lost; its properties are about safety.


## 5. Proofs

TLC explores the instances above; the theorems hold for every value of the constants.

| Theorem | States | Argument |
|---|---|---|
| `SyncSchedulerProofs!TypeCorrect` | `TypeOK` | inductive as it stands |
| `SyncSchedulerProofs!LeaseSafe`, `Exclusive` | `LeaseOutlivesTick`, `OneTicker` | `LeaseInv`: who acts on the lease holds it, and what is left is TTL minus the age of its `now`. The age stays within MaxPass < TTL, so something is left and no other WHERE matches |
| `SyncSchedulerProofs!Cadence` | `CadenceKept` | `StartsInv`: the age a tick has read for an organization it has yet to visit is at most the true age of its newest automatic start, so due by the snapshot is due in fact. Needs `OneTicker`: nobody else starts one meanwhile |
| `MessageQueueProofs!TypeCorrect` | `TypeOK` | with `LocalsInv`, what each program point says of the worker's locals |
| `MessageQueueProofs!DoneIsEarned` | `DoneMeansRan` | a worker at `returned` holds a message in `succeeded`, which only grows |
| `MessageQueueProofs!GivenUpIsSpent` | `GivenUpOnlyWhenSpent` | what a reaper or a failing worker read of `attempts` is at most what the row says later, since without a retry attempts only grow |
| `MessageQueueProofs!OverrunIsBounded` | `OverrunBounded` | under no hypothesis but a finite set of workers. Once its attempts are spent nobody reads a count that would bring a message back, so only workers that have read one before can (`Bringers`), and each uses its up in doing so: attempts, such workers and the message itself if it waits are together less than MaxAttempts and the workers (`OverrunInv`). TLC reaches the bound |
| `MessageQueueProofs!ClaimExcludes`, `NoSecondRunner`, `AttemptsBounded` | `ExclusiveRun`, `OneRunner`, `AttemptBudget` | under `Orderly` (`OrderlyInv`): without faults nothing in hand goes cold, so reapers find nothing; with one worker the reaper has nothing in hand. Either way the conditional UPDATE is the only way in, and a PENDING row has attempts to spare |
| `MessageQueueProofs!RefinesQueue` | `IsWorkQueue` | from the same invariant, an action at a time: each maps to the abstract one of its name or, when it reads or moves between program points, to a stutter. The conjunct of `OrderlyInv` about what a reaper or a failing worker has read is what `Recover` and `PutDown` need |
| `MessageQueueProofs!FlightBounded` | `InFlightBounded` | under `Orderly`, `KeyInv` keeps an account of each key: the messages in flight, the producers about to insert and the retry about to be written are at most the producers and the retries so far. An insert turns a producer's share into a message, a look is made only when nothing is in flight. TLC reaches the bound with two producers |
| `AuditChainProofs!TypeCorrect` | `TypeOK` | part of the induction below |
| `AuditChainProofs!AlwaysVerifies` | `ChainVerifies` | `Chain(rows, top)`: positions 1..top, each linked to the one before. Committed rows and anchor are a chain; at most one transaction has rows of its own, and with them the committed rows are still a chain, up to the anchor it has moved. The unique constraint refuses every stale head |
| `AuditChainProofs!RemovalIsSeen` | `RemovalSeen` | for any set of rows taken away. What `verify` accepts is a gapless chain that ends at the anchor (`OkIsChain`: every row is linked to one a position lower, so by the least position in question nothing is missing below), and rows of the chain that is there with no position missing are all of them |
| `AuditChainProofs!NothingUnaudited` | `ChangeIffEntry` | what a transaction that may commit has made is what its entries record |
| `AuditChainProofs!VerdictTrue` | `VerdictIsTrue` | what a verifier has walked was linked when it was read and is a beginning of what is there now (`WalkStep`); so the anchor it reads is the walk's end exactly if nothing was committed since |
| `AuditChainProofs!NobodyCircles` | `NoCircle` | whoever has uncommitted rows is alone in that, waits for nobody, and its next entry follows its own last one, whose position and hash no other row has (`HolderUnrefused`) |
| `AuditChainProofs!RefinesLog` | `IsAppendOnly` | every change has one entry (`OnceStep`), so the mapping's CHOOSE has one answer per position; only a commit changes the committed rows, and then the new chain begins with the old (`LogGrows`) |
| `SyncJobsProofs!TypeCorrect` | `TypeOK` | with `Callers`; includes that a lock's holder is exactly the thread inside the block |
| `SyncJobsProofs!RefinesLedger` | `IsRunLedger` | under `ThreadMode`, from `ThreadInv`: what a reaper writes is abandoned or FAILED already (`ReapsGiveUp`), so its commit is an Open or a GiveUp; a job's steps are Begin and End, a kill is Die |
| `SyncJobsProofs!LockSafe`, `OnePullSafe`, `VerdictStands` | `LockExcludes`, `OnePull`, `VerdictFinal` | under `ThreadMode`, `ThreadInv`: a job works on a row its own call inserted and only a row without a job goes cold, so a reaper holds rows that are cold or have FAILED already; and while a call that found nothing holds the lock, every conflicting run of its process is among those it will reap. One pull then follows from one active row (lemma `OneRow`: what the two partial indexes leave) |
| `SourcePullProofs!TypeCorrect` | `TypeOK` | inductive as it stands |
| `SourcePullProofs!CursorSafe`, `LogSafe` | `CursorBehindRows`, `LogWithinRows` | the session and the committed store satisfy both at once. A fetch writes rows, event and cursor from one reading: it appends that reading to those of the same commit, which the rows have taken in (lines are only added, versions only rise), and drops the older ones (`RecordedLog`); a sweep takes all three away, a commit copies the session, a kill returns to what was committed |
| `SourcePullProofs!CoverageSafe` | `CoverageIsReal` | a run that is past a window has listed it, or it was covered when its mark was armed |
| `PullMirrorProofs!RetireSafe` | `RetireNeedsCause` | `ListingInv`: a document live in the window all along is listed, in the page in hand, or ranked on a page to come. Only a change that slips the listing can rank it lower (`RankGrows`), and a page that still has something behind it says so (`LaterPage`) |
| `PullMirrorProofs!MirrorSafe`, `SweepSafe` | `FullListingMirrors`, `FullListingSweeps` | `QuietInv`: while the source stands still, what is listed is live and current, and what the resume index knows at its present stamp is current; a complete listing therefore mirrors its window when it closes, a rebuild with one reading of each document (`OnceInv`, below), and no step of a later run takes that back |
| `PullMirrorProofs!SecondReadingSafe` | `SecondReadingNeedsCause` | `OnceInv`: while the source stands still a window's pages are disjoint, and windows are; so a document in hand or to come is not in `listed`, and what this commit has read is. A fetch then finds nothing of the same commit, and leaves one reading |
| `TenantKeysProofs!TypeCorrect`, `NoOrphans`, `ErasureHolds`, `ReceiptsTrue`, `RecoverySafe`, `EraseHonoured` | `TypeOK`, `NoOrphanCiphertext`, `ErasedStaysUnreadable`, `ReceiptIffDestroyed`, `WorkingKeyKept`, `DestroyHonoured` | one invariant, `IndInv`: the draft differs from the row only as its holder's job allows, a cipher in hand is the row's key or one that was taken out, a tombstone's material is in no ciphertext, an erasure that writes will leave a tombstone, and what an operator inspected is still unreadable or destroyed when it writes |
| `QuoteSendProofs!TypeCorrect` | `TypeOK` | with `PricesInv`: prices in hand are prices of the setting |
| `QuoteSendProofs!OneDocumentHolds`, `NothingForgottenHolds` | `OneDocument`, `NothingForgotten` | `StoreInv`: references on file never exceed the next one, and a document no row names has it. `SendInv`: a press at `posting` has found nothing under its reference |
| `QuoteSendProofs!RecordIsTrueHolds` | `RecordIsTrue` | the same with what `SentContent` gives for each way a document was come by |
| `QuoteSendProofs!SentAsShownHolds` | `SentAsShown` | `ApprovalInv`: an approval on file was decided by somebody shown its price or a lower one, unless its subject moved under their eyes |
| `QuoteSendProofs!OutcomeFollowsHolds` | `OutcomeFollows` | `NotingInv`: between row and outcome the press knows which document was the newest before it |

Assumptions. `QueueAssumption`, `SchedulerAssumption`, `AuditAssumption`, `JobsAssumption`,
`PullAssumption`, `KeysAssumption`, `NoneAssumption` and `QuoteAssumption` only say what the
constants are. Two are substantial: `PassFitsLease` (section 2), used by `LeaseSafe`,
`Exclusive` and `Cadence`; and `OneOperator` of `TenantKeys`, one recovery at a time, which
`RecoverySafe` uses. The others are explicit hypotheses of the theorems that need them:

- `Orderly`, of `ClaimExcludes`, `NoSecondRunner`, `AttemptsBounded`, `RefinesQueue`
  and `FlightBounded`: one operator at most, and either nobody is killed, falls
  silent or has a handler that kills (`Faultless`), or there is one worker, which may suffer all
  of that as often as it likes (`OneWorker`:
  compose starts one, unless it is scaled). Finding 1 shows that two workers
  and one kill are too much.
- `IsFiniteSet(Worker)` of `OverrunIsBounded` and `IsFiniteSet(Producer)` of `FlightBounded`,
  which count them.
- `ThreadMode`, of `LockSafe`, `OnePullSafe`, `VerdictStands` and `RefinesLedger`: thread dispatch,
  and no phase longer than STALE_AFTER. Finding 2 shows that `LockExcludes` fails behind the queue.

Every safety property of a passing run, refinements included, is the subject of a theorem, for
every value of the constants under the hypotheses above. Model-checked and not proved is all
liveness (`Settles`, `SomebodyTicks`, `AppendEnds`, `NothingStuck`, `EndsForGood`, `Healed`,
`VaultHeals`), which
with fairness and ENABLED is beyond the prover; of `AppendEnds` the safety half is proved
(`NobodyCircles`). The refinements carry no fairness either. `AttemptBudget`, `VerdictFinal`,
`NoCircle` and `DestroyHonoured` are properties of theorems and in no run: the first two follow
from refinements a run checks, the last is close to a guard of `keys._dek`.


## 6. What the runs found

1. **Two reapers run one message twice** (`queue_two_reapers`). `reap_stale` reads stale rows
   and writes them by primary key. The second reaper's commit re-opens a message the first
   has handed back and a worker has claimed (`messaging/queue.py:254-285`).
2. **A queued company run overlaps an all-companies run of the same process**
   (`sync_overlap`). A run that waits behind a backlog longer than STALE_AFTER is reaped, and
   `run_job` revives it without looking (`ingestion/jobs.py:1341, 705`).
3. **A nightly pull that finished OK has skipped an edit** (`pull_nightly`). Each window is armed
   with the cursor's high water as it stands then, so a document of the first window edited
   last raises the mark above an older edit that waits in the second window, whose listing
   stops before it (`ingestion/sync.py:557-561`, `repositories.py:677`). The weekly
   reconciliation reads it (`Healed`).

What the models show besides, with the property that bounds it:

- Two producers can both enqueue one key: the dedupe read and the insert are apart and the
  index is not unique (`messaging/queue.py:93-117`). `InFlightBounded` says how far it goes, and
  `FlightBounded` proves it: at most as many messages as there are producers and retries.
- Two operators who retry one message at once can reset it while it runs (`messaging/queue.py:307`
  reads and later writes by id). The runs have one operator and `ExclusiveRun` would not hold
  with two; `OverrunBounded` and `DoneMeansRan` are proved for any number.
- A run behind the queue may be given up, revived, pulled again and written over. That this ends,
  in one verdict, is `EndsForGood`; that no verdict is ever rewritten holds in threads only.
- A document listed twice between two commits, because the source moved it under the pages, keeps
  two live readings, perhaps of two versions with different lines: supersede does not reach events
  that are added and not flushed (`state/events.py:163`, `db.py:162`). `SecondReadingNeedsCause`
  says this is the only way, `LogWithinRows` that the older one says nothing the rows lack. It
  stays: later pulls skip the document as already held, reconciliations included, until it
  changes or a rebuild reads it. `Healed` is about the rows and the newest reading.
- Failing workers hand a message out more often than `max_attempts`, by counts they have read
  before it was claimed again. `OverrunBounded` says how often: once more for each other worker.
- `verify` reads the rows and then the anchor, so a commit in between makes an intact chain
  TRUNCATED (`trust/audit.py:432-459`). `VerdictIsTrue` says this is the only way, and
  that no ok is ever given to less than all committed rows.
- Re-raising a request overwrites the subject somebody is deciding on, so a verdict may stand
  on a price nobody was shown (`approvals.py:179`, against `approvals.py:19-21`); the gate
  judges whichever snapshot is newest. `SentAsShown` names these two gaps and no third.
- A document found again after a press died without a row is recorded with the quote's
  present content, and a retry that loses its own answer records the older content.
  `RecordIsTrue` names both.
- A quote marked as sent by hand after a press died without a trace orphans the document
  (`NothingForgotten`); a process that dies between the row and the outcome leaves the outcome
  behind for good (`OutcomeFollows`).
- `rekey.main` goes on when `master_key_is_current` is None although `_report` does not call the
  key a candidate then (`rekey.py:133-136` and `175`). `WorkingKeyKept` holds all the same.


## 7. Limits of the models

- What a handler does but for the pull and the vault, payloads, logs, error texts, phases.
- `start_all` and the umbrella's summary row; the analysis that follows a pull.
- `SourcePull` has one kind of document, and its runs do not overlap (that is `SyncJobs`'s
  matter). A write inside a window that flushes on the way (a placeholder product,
  `repositories.py:321`) would let supersede reach more; unknown products are left out, so the
  model keeps the older reading. Left out too: rows a rebuild leaves behind without a cursor, a dropped line's sales row
  that stays, lines of unknown customers, payments and bills, the analysis caches.
- `TenantKeys` leaves out the counts of manifest and receipt, two operators at once (the
  assumption above), and credentials that are entered again.
- `QuoteSend` has one press at a time: two concurrent presses of one quote can both find nothing
  and create two documents under one reference, and `OneDocument` does not speak of that. A
  document never lands after it was looked for. Roles, authority limits and rationales, the
  policy toggle, deleting a quote or changing its customer, escalations and the other gates are
  left out; `below_floor` of the screen is the assessment's floor.
- The map covers a small part of the repository's 150,000 lines. Most of them are
  deterministic arithmetic, routers, ORM declarations, prompts and the front end, which have
  no interleavings to check; section 8 lists the protocols that are left.
- SQLite's locking. It allows fewer interleavings than READ COMMITTED in these protocols.
- Clock skew between hosts: all processes read one clock.
- Edited rows of the audit chain; the signature is assumed to tell.
- A message may be pruned only at the point of the loop where the code prunes, and any
  subset of the terminal rows may be old enough.
- A worker that is asked to stop ends like one that is killed between two steps, with less to
  lose; the queue has no action of its own for it (the scheduler's `Stop` releases a lease,
  so there it has one).
- Environment budgets (`MaxCrashes`, `MaxStalls`, `MaxRetries`, `MaxFaults`, `PerTxn`) bound
  TLC's runs; the proofs leave them free, but for `Orderly` and `ThreadMode`.


## 8. Plan

What is left, in this order. Each is a module with its MC instance, a run, its mutants, and
the theorem named.

1. `SyncOverQueue`: SyncJobs composed with MessageQueue's message states, for redelivery
   and swallowed failures; `start_all` joins SyncJobs.
2. Two presses at once in `QuoteSend`, and a document that lands after it was looked for.
3. `Memberships` with sessions: an organization keeps an owner; a revoked session is refused.
4. `DecisionLifecycle`, `ValueLedger`, `Entitlements`: check-then-write protocols.
5. `RecomputeJobs`, and `EventState`: the incremental fold equals replay, as pure functions
   over bounded logs.
6. Proofs: abstract specifications for the life of a key, the sending of a quote and the
   lease, and the safety halves of `Settles`, `SomebodyTicks` and `VaultHeals` (somebody can
   always move); as the modules above come, that a queued pull is run once or found ended, and
   that an organization keeps an owner.
