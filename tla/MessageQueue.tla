---------------------------- MODULE MessageQueue ----------------------------
(***************************************************************************)
(* The durable message queue: app/messaging/queue.py (every state a message *)
(* can be in), app/messaging/worker.py (the loop that claims and runs), and *)
(* the operator's retry in app/routers/internal.py.                         *)
(*                                                                          *)
(* Every commit of the code is one action; what a process read in an        *)
(* earlier statement and still holds is a variable of that process, so that *)
(* another process can move in between.  Three things are abstracted:       *)
(*   - a heartbeat's age is one bit, "older than STALE_AFTER" (cold);       *)
(*   - available_at is the set of messages that are due and, for each, the  *)
(*     ones that fell due before it, which is all the claim's ORDER BY sees;*)
(*   - topics are two sets: the messages no handler knows, and the ones     *)
(*     whose handler takes its process down with it.                        *)
(***************************************************************************)
EXTENDS Integers, FiniteSets

CONSTANTS
  Worker,         \* processes running worker.start_worker's loop
  Producer,       \* request threads calling queue.enqueue
  Operator,       \* requests of POST /internal/queue/{id}/retry
  Msg,            \* message ids; uuids, so never reused
  KeyOf,          \* the dedupe_key each message is enqueued under
  NoKey,          \* dedupe_key = None
  None,           \* no message, no worker
  Unknown,        \* messages whose topic no worker has a handler for
  Poison,         \* messages whose handler kills its process
  MaxAttempts,    \* settings.QUEUE_MAX_ATTEMPTS
  DrainLimit,     \* drain_once's limit
  ClaimAttempts,  \* _CLAIM_ATTEMPTS
  PruneDone,      \* QUEUE_DONE_RETENTION_DAYS > 0
  PruneDead,      \* QUEUE_DEAD_LETTER_RETENTION_DAYS > 0
  MaxCrashes, MaxStalls, MaxRetries   \* bounds on the environment

ASSUME QueueAssumption ==
  /\ None \notin Msg \cup Worker
  /\ None \notin {KeyOf[m] : m \in Msg}
  /\ Unknown \subseteq Msg /\ Poison \subseteq Msg
  /\ {MaxAttempts, DrainLimit, ClaimAttempts} \subseteq Nat \ {0}
  /\ {MaxCrashes, MaxStalls, MaxRetries} \subseteq Nat
  /\ {PruneDone, PruneDead} \subseteq BOOLEAN

VARIABLES
  \* The table queued_messages.
  status,      \* NONE before the insert, GONE once pruned
  attempts,
  claimedBy,
  cold,        \* CLAIMED messages whose heartbeat_at is older than STALE_AFTER
  due,         \* PENDING messages with available_at <= now
  ahead,       \* for a due message, the due messages that fell due before it
  \* Each worker process.
  pc,
  held,        \* the message object in hand: selected, claimed or run
  seen,        \* the attempts fail() read before its UPDATE
  backs,       \* stale rows the reaper loaded and will hand back
  deads,       \* stale rows the reaper loaded and will dead-letter
  tries,       \* claims lost so far in this call of claim()
  budget,      \* messages this pass of drain_once may still take
  \* Requests.
  wanted,      \* the key a producer found free and is about to insert
  asked,       \* the terminal message an operator loaded and is about to retry
  \* Environment budgets and history.
  crashes, stalls, retries,
  succeeded    \* messages a handler of which has returned (history)

row  == <<status, attempts, claimedBy, cold, due, ahead>>
proc == <<pc, held, seen, backs, deads, tries, budget>>
req  == <<wanted, asked>>
env  == <<crashes, stalls, retries>>
vars == <<row, proc, req, env, succeeded>>

Active   == {"PENDING", "CLAIMED"}
Terminal == {"DONE", "DEAD_LETTER"}
Keys     == {KeyOf[m] : m \in Msg}
Rows     == {m \in Msg : status[m] \notin {"NONE", "GONE"}}

\* The worker has claimed its message and not yet recorded how it ended.
InHand(w) == pc[w] \in {"running", "failing", "failed", "unknown", "returned"}

\* The heartbeat thread lives from the handler's call to the end of fail().
Beating(w) == pc[w] \in {"running", "failing", "failed"}

TypeOK ==
  /\ status \in [Msg -> {"NONE", "GONE"} \cup Active \cup Terminal]
  /\ attempts \in [Msg -> Nat]
  /\ claimedBy \in [Msg -> Worker \cup {None}]
  /\ cold \in SUBSET Msg
  /\ due \in SUBSET Msg
  /\ ahead \in [Msg -> SUBSET Msg]
  /\ pc \in [Worker -> {"top", "reaping", "claiming", "selected", "running",
                        "failing", "failed", "unknown", "returned", "down"}]
  /\ held \in [Worker -> Msg \cup {None}]
  /\ seen \in [Worker -> Nat]
  /\ backs \in [Worker -> SUBSET Msg]
  /\ deads \in [Worker -> SUBSET Msg]
  /\ tries \in [Worker -> 0..ClaimAttempts]
  /\ budget \in [Worker -> 0..DrainLimit]
  /\ wanted \in [Producer -> Keys \cup {None}]
  /\ asked \in [Operator -> Msg \cup {None}]
  /\ crashes \in 0..MaxCrashes /\ stalls \in 0..MaxStalls
  /\ retries \in 0..MaxRetries
  /\ succeeded \in SUBSET Msg

Init ==
  /\ status = [m \in Msg |-> "NONE"]
  /\ attempts = [m \in Msg |-> 0]
  /\ claimedBy = [m \in Msg |-> None]
  /\ cold = {}
  /\ due = {}
  /\ ahead = [m \in Msg |-> {}]
  /\ pc = [w \in Worker |-> "top"]
  /\ held = [w \in Worker |-> None]
  /\ seen = [w \in Worker |-> 0]
  /\ backs = [w \in Worker |-> {}]
  /\ deads = [w \in Worker |-> {}]
  /\ tries = [w \in Worker |-> 0]
  /\ budget = [w \in Worker |-> 0]
  /\ wanted = [p \in Producer |-> None]
  /\ asked = [o \in Operator |-> None]
  /\ crashes = 0 /\ stalls = 0 /\ retries = 0
  /\ succeeded = {}

-----------------------------------------------------------------------------
(* The order of the claim query: available_at, oldest first.               *)

\* The messages of arrive get available_at = now; those of leave are no
\* longer due.  Messages given the same instant are tied.
Reschedule(arrive, leave) ==
  /\ due' = (due \ leave) \cup arrive
  /\ ahead' = [m \in Msg |->
                 IF m \in arrive THEN due \ (arrive \cup leave)
                 ELSE IF m \in leave THEN {} ELSE ahead[m] \ (arrive \cup leave)]

Oldest == {m \in due : ahead[m] = {}}

\* A backoff elapses.
BecomeDue(m) ==
  /\ status[m] = "PENDING" /\ m \notin due
  /\ Reschedule({m}, {})
  /\ UNCHANGED <<status, attempts, claimedBy, cold, proc, req, env, succeeded>>

\* A worker holds the message: it has claimed it and will record its outcome.
InUse(m) == \E w \in Worker : InHand(w) /\ held[w] = m

\* The heartbeat of a message nobody holds any more grows older than STALE_AFTER.
GoCold(m) ==
  /\ status[m] = "CLAIMED" /\ m \notin cold /\ ~InUse(m)
  /\ cold' = cold \cup {m}
  /\ UNCHANGED <<status, attempts, claimedBy, due, ahead, proc, req, env, succeeded>>

\* So does the heartbeat of a message whose process is suspended, or cut off
\* from the database, for that long.
Stall(m) ==
  /\ status[m] = "CLAIMED" /\ m \notin cold /\ InUse(m)
  /\ stalls < MaxStalls /\ stalls' = stalls + 1
  /\ cold' = cold \cup {m}
  /\ UNCHANGED <<status, attempts, claimedBy, due, ahead, proc, req,
                 crashes, retries, succeeded>>
-----------------------------------------------------------------------------
(* enqueue: look for the work's key, then insert; the caller commits.      *)

\* mutant: a message somebody is running does not count
InFlightIfWaiting(k) == \E m \in Msg : KeyOf[m] = k /\ status[m] = "PENDING"

InFlight(k) == \E m \in Msg : KeyOf[m] = k /\ status[m] \in Active

\* A message with the key is in flight: enqueue returns that one, and nothing
\* changes.  Otherwise the producer goes on to insert.
EnqueueLook(p, k) ==
  /\ wanted[p] = None
  /\ \E m \in Msg : status[m] = "NONE" /\ KeyOf[m] = k
  /\ k = NoKey \/ ~InFlight(k)
  /\ wanted' = [wanted EXCEPT ![p] = k]
  /\ UNCHANGED <<row, proc, asked, env, succeeded>>

EnqueueInsert(p, m) ==
  /\ wanted[p] # None
  /\ KeyOf[m] = wanted[p] /\ status[m] = "NONE"
  /\ status' = [status EXCEPT ![m] = "PENDING"]
  /\ Reschedule({m}, {})
  /\ wanted' = [wanted EXCEPT ![p] = None]
  /\ UNCHANGED <<attempts, claimedBy, cold, proc, asked, env, succeeded>>
-----------------------------------------------------------------------------
(* The worker loop: reap, prune, drain.                                    *)

\* mutant: one attempt too few
SpentEarly(n) == n + 1 >= MaxAttempts

\* A message claimed this often has had its chances.
Spent(n) == n >= MaxAttempts

\* mutant: the reaper buries what is spent and leaves the rest claimed
StaleAndSpent == {m \in cold : Spent(attempts[m])}

\* What reap_stale's loop does not skip.
Stale == cold

Goto(w, from, to) == pc[w] = from /\ pc' = [pc EXCEPT ![w] = to]

\* reap_stale finds every claim fresh; the drain starts with a full budget.
ReapNothing(w) ==
  /\ Goto(w, "top", "claiming")
  /\ Stale = {}
  /\ budget' = [budget EXCEPT ![w] = DrainLimit]
  /\ tries' = [tries EXCEPT ![w] = 0]
  /\ UNCHANGED <<row, held, seen, backs, deads, req, env, succeeded>>

\* mutant: whatever is stale goes back
ReapSelectAll(w) ==
  /\ Goto(w, "top", "reaping")
  /\ Stale # {}
  /\ backs' = [backs EXCEPT ![w] = Stale]
  /\ UNCHANGED <<row, held, seen, deads, tries, budget, req, env, succeeded>>

\* reap_stale's SELECT: the stale rows, sorted by what will be done to them.
ReapSelect(w) ==
  /\ Goto(w, "top", "reaping")
  /\ Stale # {}
  /\ deads' = [deads EXCEPT ![w] = {m \in Stale : Spent(attempts[m])}]
  /\ backs' = [backs EXCEPT ![w] = {m \in Stale : ~Spent(attempts[m])}]
  /\ UNCHANGED <<row, held, seen, tries, budget, req, env, succeeded>>

\* What the ORM can still write: a row that was deleted meanwhile fails the commit.
Writable(w, rows) == IF backs[w] \cup deads[w] \subseteq Rows THEN rows ELSE {}

\* reap_stale's commit: the ORM writes the rows it loaded, by primary key.  When
\* it fails, the pass is over.
ReapWrite(w) ==
  LET dead == Writable(w, deads[w])
      back == Writable(w, backs[w]) IN
  /\ Goto(w, "reaping", IF dead \cup back = {} THEN "top" ELSE "claiming")
  /\ status' = [m \in Msg |-> IF m \in dead THEN "DEAD_LETTER"
                              ELSE IF m \in back THEN "PENDING" ELSE status[m]]
  /\ claimedBy' = [m \in Msg |-> IF m \in back THEN None ELSE claimedBy[m]]
  /\ cold' = cold \ (back \cup dead)
  /\ Reschedule(back, dead)
  /\ backs' = [backs EXCEPT ![w] = {}]
  /\ deads' = [deads EXCEPT ![w] = {}]
  /\ budget' = [budget EXCEPT ![w] = DrainLimit]
  /\ tries' = [tries EXCEPT ![w] = 0]
  /\ UNCHANGED <<attempts, held, seen, req, env, succeeded>>

\* mutant: prune goes by age alone
PruneByAge(w) ==
  /\ pc[w] = "claiming" /\ budget[w] = DrainLimit /\ tries[w] = 0
  /\ \E m \in Rows : status' = [status EXCEPT ![m] = "GONE"]
  /\ UNCHANGED <<attempts, claimedBy, cold, due, ahead, proc, req, env, succeeded>>

\* prune, between the reap and the drain: some terminal rows are past their
\* retention.
Prune(w) ==
  /\ pc[w] = "claiming" /\ budget[w] = DrainLimit /\ tries[w] = 0
  /\ \E old \in SUBSET {m \in Msg : \/ PruneDone /\ status[m] = "DONE"
                                    \/ PruneDead /\ status[m] = "DEAD_LETTER"} :
       /\ old # {}
       /\ status' = [m \in Msg |-> IF m \in old THEN "GONE" ELSE status[m]]
  /\ UNCHANGED <<attempts, claimedBy, cold, due, ahead, proc, req, env, succeeded>>

\* The pass is over: the budget is spent, nothing is due, or claim() lost its
\* last try.  The loop comes back to the reaper.
EndPass(w) ==
  /\ Goto(w, "claiming", "top")
  /\ budget[w] = 0 \/ due = {} \/ tries[w] = ClaimAttempts
  /\ UNCHANGED <<row, held, seen, backs, deads, tries, budget, req, env, succeeded>>

\* The oldest due message.
Choose(w) ==
  /\ Goto(w, "claiming", "selected")
  /\ \E m \in Oldest : held' = [held EXCEPT ![w] = m]
  /\ UNCHANGED <<row, seen, backs, deads, tries, budget, req, env, succeeded>>

ClaimSelect(w) == budget[w] > 0 /\ tries[w] < ClaimAttempts /\ Choose(w)

\* The UPDATE has changed the row: the worker owns the message and calls its
\* handler, if the topic has one.
TakeRow(w) ==
  LET m == held[w] IN
  /\ status' = [status EXCEPT ![m] = "CLAIMED"]
  /\ claimedBy' = [claimedBy EXCEPT ![m] = w]
  /\ attempts' = [attempts EXCEPT ![m] = @ + 1]
  /\ cold' = cold \ {m}
  /\ Reschedule({}, {m})
  /\ pc' = [pc EXCEPT ![w] = IF m \in Unknown THEN "unknown" ELSE "running"]
  /\ budget' = [budget EXCEPT ![w] = @ - 1]
  /\ tries' = [tries EXCEPT ![w] = 0]
  /\ UNCHANGED <<held, seen, backs, deads, req, env, succeeded>>

\* mutant: the UPDATE names the row and not its status
ClaimAnyway(w) == pc[w] = "selected" /\ held[w] \in Rows /\ TakeRow(w)

\* The conditional UPDATE finds the row still PENDING.
ClaimWin(w) == pc[w] = "selected" /\ status[held[w]] = "PENDING" /\ TakeRow(w)

\* A zero-row update: somebody else got there first.  Look again.
ClaimLose(w) ==
  /\ Goto(w, "selected", "claiming")
  /\ status[held[w]] # "PENDING"
  /\ held' = [held EXCEPT ![w] = None]
  /\ tries' = [tries EXCEPT ![w] = @ + 1]
  /\ UNCHANGED <<row, seen, backs, deads, budget, req, env, succeeded>>
-----------------------------------------------------------------------------
(* run_message: the handler, its heartbeat, and recording the outcome.     *)

\* The heartbeat thread's own commit.  By message id alone.
Heartbeat(w) ==
  /\ Beating(w) /\ held[w] \in cold
  /\ cold' = cold \ {held[w]}
  /\ UNCHANGED <<status, attempts, claimedBy, due, ahead, proc, req, env, succeeded>>

HandlerReturns(w) ==
  /\ held[w] \notin Poison
  /\ Goto(w, "running", "returned")
  /\ succeeded' = succeeded \cup {held[w]}
  /\ UNCHANGED <<row, held, seen, backs, deads, tries, budget, req, env>>

\* mutant: the exception is swallowed and the message completed
HandlerSwallows(w) ==
  /\ held[w] \notin Poison
  /\ Goto(w, "running", "returned")
  /\ UNCHANGED <<row, held, seen, backs, deads, tries, budget, req, env, succeeded>>

HandlerRaises(w) ==
  /\ held[w] \notin Poison
  /\ Goto(w, "running", "failing")
  /\ UNCHANGED <<row, held, seen, backs, deads, tries, budget, req, env, succeeded>>

\* The message is put down and drain_once goes round again.
PutDown(w) ==
  /\ pc' = [pc EXCEPT ![w] = "claiming"]
  /\ held' = [held EXCEPT ![w] = None]

\* complete(): status = DONE where message_id matches, whatever the row became.
Complete(w) ==
  LET m == held[w] IN
  /\ pc[w] = "returned"
  /\ PutDown(w)
  /\ IF m \in Rows
     THEN /\ status' = [status EXCEPT ![m] = "DONE"]
          /\ Reschedule({}, {m})
     ELSE UNCHANGED <<status, due, ahead>>
  /\ cold' = cold \ {m}
  /\ UNCHANGED <<attempts, claimedBy, seen, backs, deads, tries, budget,
                 req, env, succeeded>>

\* fail() reads the attempts from the row: 0 when the row has gone.
FailRead(w) ==
  /\ Goto(w, "failing", "failed")
  /\ seen' = [seen EXCEPT ![w] = IF held[w] \in Rows THEN attempts[held[w]] ELSE 0]
  /\ UNCHANGED <<row, held, backs, deads, tries, budget, req, env, succeeded>>

\* fail() writes what that count decided, whatever the row became.
FailWrite(w) ==
  LET m == held[w] IN
  /\ pc[w] = "failed"
  /\ PutDown(w)
  /\ IF m \in Rows
     THEN /\ status' = [status EXCEPT ![m] =
                          IF Spent(seen[w]) THEN "DEAD_LETTER" ELSE "PENDING"]
          /\ claimedBy' = [claimedBy EXCEPT ![m] =
                          IF Spent(seen[w]) THEN @ ELSE None]
          /\ Reschedule({}, {m})
     ELSE UNCHANGED <<status, claimedBy, due, ahead>>
  /\ seen' = [seen EXCEPT ![w] = 0]
  /\ cold' = cold \ {m}
  /\ UNCHANGED <<attempts, backs, deads, tries, budget, req, env, succeeded>>

\* UnknownTopic: fail(terminal=True), once.
FailUnknown(w) ==
  LET m == held[w] IN
  /\ pc[w] = "unknown"
  /\ PutDown(w)
  /\ IF m \in Rows
     THEN /\ status' = [status EXCEPT ![m] = "DEAD_LETTER"]
          /\ Reschedule({}, {m})
     ELSE UNCHANGED <<status, due, ahead>>
  /\ cold' = cold \ {m}
  /\ UNCHANGED <<attempts, claimedBy, seen, backs, deads, tries, budget,
                 req, env, succeeded>>
-----------------------------------------------------------------------------
(* The process dies, and another takes its place.                          *)

Die(w) ==
  /\ pc' = [pc EXCEPT ![w] = "down"]
  /\ held' = [held EXCEPT ![w] = None]
  /\ seen' = [seen EXCEPT ![w] = 0]
  /\ backs' = [backs EXCEPT ![w] = {}]
  /\ deads' = [deads EXCEPT ![w] = {}]
  /\ tries' = [tries EXCEPT ![w] = 0]
  /\ budget' = [budget EXCEPT ![w] = 0]
  /\ UNCHANGED <<row, req, stalls, retries, succeeded>>

\* The container is killed: no step of its own code runs.
Crash(w) ==
  /\ pc[w] # "down" /\ crashes < MaxCrashes
  /\ crashes' = crashes + 1
  /\ Die(w)

\* A handler that kills its worker every time it runs.
HandlerKills(w) ==
  /\ pc[w] = "running" /\ held[w] \in Poison
  /\ UNCHANGED crashes
  /\ Die(w)

Restart(w) ==
  /\ Goto(w, "down", "top")
  /\ UNCHANGED <<row, held, seen, backs, deads, tries, budget, req, env, succeeded>>
-----------------------------------------------------------------------------
(* requeue, as queue_retry calls it: load the row and refuse an active one, *)
(* then UPDATE by id.                                                       *)

RetryLook(o, m) ==
  /\ asked[o] = None /\ retries < MaxRetries
  /\ status[m] \in Terminal
  /\ asked' = [asked EXCEPT ![o] = m]
  /\ retries' = retries + 1
  /\ UNCHANGED <<row, proc, wanted, crashes, stalls, succeeded>>

RetryWrite(o) ==
  LET m == asked[o] IN
  /\ m # None
  /\ asked' = [asked EXCEPT ![o] = None]
  /\ IF m \in Rows
     THEN /\ status' = [status EXCEPT ![m] = "PENDING"]
          /\ attempts' = [attempts EXCEPT ![m] = 0]
          /\ claimedBy' = [claimedBy EXCEPT ![m] = None]
          /\ Reschedule({m}, {})
     ELSE UNCHANGED <<status, attempts, claimedBy, due, ahead>>
  /\ cold' = cold \ {m}
  /\ UNCHANGED <<proc, wanted, env, succeeded>>
-----------------------------------------------------------------------------
\* One step of the worker's own code.
WorkerStep(w) ==
  \/ ReapNothing(w) \/ ReapSelect(w) \/ ReapWrite(w) \/ EndPass(w)
  \/ ClaimSelect(w) \/ ClaimWin(w) \/ ClaimLose(w)
  \/ HandlerReturns(w) \/ HandlerRaises(w) \/ HandlerKills(w)
  \/ Complete(w) \/ FailRead(w) \/ FailWrite(w) \/ FailUnknown(w)

Next ==
  \/ \E w \in Worker : WorkerStep(w) \/ Prune(w) \/ Heartbeat(w)
                       \/ Crash(w) \/ Restart(w)
  \/ \E m \in Msg : BecomeDue(m) \/ GoCold(m) \/ Stall(m)
  \/ \E p \in Producer : \/ \E k \in Keys : EnqueueLook(p, k)
                         \/ \E m \in Msg : EnqueueInsert(p, m)
  \/ \E o \in Operator : \/ \E m \in Msg : RetryLook(o, m)
                         \/ RetryWrite(o)

Spec == Init /\ [][Next]_vars

\* A running process takes its next step and its handlers end; a dead one is
\* replaced by the orchestrator; time passes.  Nothing is assumed of requests,
\* stalls or crashes.
Fairness ==
  /\ \A w \in Worker : WF_vars(WorkerStep(w) \/ Restart(w))
  /\ \A m \in Msg : WF_vars(BecomeDue(m) \/ GoCold(m))

FairSpec == Spec /\ Fairness
-----------------------------------------------------------------------------
(* Properties.                                                             *)

\* While nobody crashes or stalls, two workers never run one message: a worker
\* that is running, or recording an outcome, owns the row it is about to write.
ExclusiveRun ==
  \A w \in Worker : InHand(w) => /\ status[held[w]] = "CLAIMED"
                                 /\ claimedBy[held[w]] = w

\* No two workers are inside the handler of one message.
OneRunner ==
  \A v, w \in Worker :
    pc[v] = "running" /\ pc[w] = "running" /\ held[v] = held[w] => v = w

\* A message is not handed to a handler more often than max_attempts.
AttemptBudget == \A m \in Msg : attempts[m] <= MaxAttempts

\* Workers that fail beside one another do hand it out more often: each of them may
\* bring it back once by a count that is no longer true - and never twice.
OverrunBounded == \A m \in Msg : attempts[m] < MaxAttempts + Cardinality(Worker)

\* A message is DONE only if one of its runs came back: whatever zombies and
\* stale reapers write, a receipt is never issued for work nobody finished.
DoneMeansRan == \A m \in Msg : status[m] = "DONE" => m \in succeeded

\* Until an operator resets the count, a message is dead-lettered only when its
\* attempts are spent, or no handler knows its topic.
GivenUpOnlyWhenSpent ==
  retries = 0 =>
    \A m \in Msg : status[m] = "DEAD_LETTER" => attempts[m] >= MaxAttempts \/ m \in Unknown

\* enqueue's coalescing, with the race its plain index leaves: two requests may look
\* before either inserts, and an operator's retry does not look at keys.  Each producer
\* and each retry can add one message to those of a key in flight, and never a second:
\* a key names no more of them than there are producers and retries.
InFlightBounded ==
  \A k \in Keys \ {NoKey} :
    Cardinality({m \in Msg : KeyOf[m] = k /\ status[m] \in Active})
      <= Cardinality(Producer) + retries

\* The promises of the queue together, as the refinement of an abstract one: a
\* message has one worker at a time, what a worker records is how its run ended,
\* and nothing leaves the queue before it is done or its chances are spent.
Hand == [w \in Worker |-> IF InHand(w) THEN held[w] ELSE None]
Back == {w \in Worker : pc[w] = "returned"}

Abstract == INSTANCE WorkQueue WITH hand <- Hand, back <- Back

IsWorkQueue == Abstract!Spec

\* Every message that waits is finished or given up in the end: a dead worker,
\* a stalled one or a handler that kills its process does not keep it for ever.
Settles ==
  \A m \in Msg : status[m] = "PENDING" ~> status[m] \in Terminal \cup {"GONE"}
=============================================================================
