------------------------------ MODULE SyncJobs ------------------------------
(***************************************************************************)
(* One organization's pulls, app/ingestion/jobs.py: who may start one, the  *)
(* partial unique indexes of sync_runs, the reaping of runs that stopped    *)
(* reporting, and run_job in a thread or behind the message queue.          *)
(*                                                                          *)
(* Each commit is one action, and so is each statement whose result a       *)
(* process acts on later.  A heartbeat's age is one bit, "older than        *)
(* STALE_AFTER" (cold).  What a pull reads and writes is left out; so is    *)
(* start_all, whose pulls are started and run as any other.                 *)
(***************************************************************************)
EXTENDS Integers, FiniteSets

CONSTANTS
  Proc,       \* processes: uvicorn workers, each with one _start_lock
  Starter,    \* request and scheduler threads
  HomeOf,     \* the process of each
  Conn,       \* connected companies
  All,        \* connection_id NULL: every enabled company
  Run,        \* run ids; uuids, so never reused
  None,
  Queue,      \* SYNC_DISPATCH: through the message queue, or a thread
  Refusals,   \* start_sync's range(3)
  MaxCrashes, MaxStalls   \* bounds on the environment

ASSUME JobsAssumption ==
  /\ HomeOf \in [Starter -> Proc]
  /\ All \notin Conn /\ None \notin Conn \cup {All} \cup Run \cup Starter \cup Proc
  /\ Queue \in BOOLEAN /\ Refusals \in Nat \ {0}
  /\ MaxCrashes \in Nat /\ MaxStalls \in Nat

VARIABLES
  \* sync_runs, committed.
  status,     \* NONE before the insert
  conn,       \* connection_id
  cold,       \* active runs whose heartbeat_at is older than STALE_AFTER
  home,       \* the process that started the run (history)
  \* _start_lock of each process, and each thread's call of start_sync.
  lock,
  pc,
  want,       \* the connection asked for
  found,      \* the guard found a run to hand back
  reaps,      \* stale runs the guard has read, flushed and not committed
  refused,    \* inserts the index has refused in this call
  mine,       \* the run this call has inserted
  \* run_job: one per run at most, in a thread or from its message.
  job,        \* none, waiting, loaded, pulling, told (queue: not yet completed)
  at,         \* the process it runs in
  seen,       \* the status run_job read
  crashes, stalls

table  == <<status, conn, cold, home>>
caller == <<lock, pc, want, found, reaps, refused, mine>>
jobs   == <<job, at, seen>>
vars   == <<table, caller, jobs, crashes, stalls>>

Active   == {"QUEUED", "RUNNING"}
Terminal == {"OK", "FAILED"}     \* OK stands for PARTIAL too
Scope    == Conn \cup {All}

TypeOK ==
  /\ status \in [Run -> {"NONE"} \cup Active \cup Terminal]
  /\ conn \in [Run -> Scope \cup {None}]
  /\ cold \in SUBSET {r \in Run : status[r] \in Active}
  /\ home \in [Run -> Proc \cup {None}]
  /\ lock \in [Proc -> Starter \cup {None}]
  /\ \A s \in Starter :
       lock[HomeOf[s]] = s <=> want[s] # None /\ pc[s] \in {"looking", "looked", "again"}
  /\ pc \in [Starter -> {"idle", "looking", "looked", "again", "dispatching"}]
  /\ want \in [Starter -> Scope \cup {None}]
  /\ found \in [Starter -> BOOLEAN]
  /\ reaps \in [Starter -> SUBSET Run]
  /\ refused \in [Starter -> 0..Refusals]
  /\ mine \in [Starter -> Run \cup {None}]
  /\ job \in [Run -> {"none", "waiting", "loaded", "pulling", "told", "done"}]
  /\ at \in [Run -> Proc \cup {None}]
  /\ seen \in [Run -> {"NONE"} \cup Active \cup Terminal]
  /\ crashes \in 0..MaxCrashes /\ stalls \in 0..MaxStalls

Init ==
  /\ status = [r \in Run |-> "NONE"]
  /\ conn = [r \in Run |-> None]
  /\ cold = {}
  /\ home = [r \in Run |-> None]
  /\ lock = [p \in Proc |-> None]
  /\ pc = [s \in Starter |-> "idle"]
  /\ want = [s \in Starter |-> None]
  /\ found = [s \in Starter |-> FALSE]
  /\ reaps = [s \in Starter |-> {}]
  /\ refused = [s \in Starter |-> 0]
  /\ mine = [s \in Starter |-> None]
  /\ job = [r \in Run |-> "none"]
  /\ at = [r \in Run |-> None]
  /\ seen = [r \in Run |-> "NONE"]
  /\ crashes = 0 /\ stalls = 0

-----------------------------------------------------------------------------
(* Heartbeats.                                                             *)

ActiveRuns == {r \in Run : status[r] \in Active}

\* A process is working on the run and reports for it.
Live(r) == job[r] \in {"loaded", "pulling"} \/ (job[r] = "waiting" /\ ~Queue)

\* A run nobody reports for grows older than STALE_AFTER: its process died, its
\* dispatch never happened, or its message waits for a worker.
GoCold(r) ==
  /\ r \in ActiveRuns \ cold /\ ~Live(r)
  /\ \A s \in Starter : mine[s] # r
  /\ cold' = cold \cup {r}
  /\ UNCHANGED <<status, conn, home, caller, jobs, crashes, stalls>>

\* A phase that takes longer than STALE_AFTER.
Stall(r) ==
  /\ r \in ActiveRuns \ cold /\ Live(r)
  /\ stalls < MaxStalls /\ stalls' = stalls + 1
  /\ cold' = cold \cup {r}
  /\ UNCHANGED <<status, conn, home, caller, jobs, crashes>>
-----------------------------------------------------------------------------
(* active_run, active_runs, _active_for_start.                             *)

\* mutants: heartbeats are not looked at; a run that never began is not reaped
StaleAny == ActiveRuns
StaleRunning == {r \in cold : status[r] = "RUNNING"}

\* is_stale, of the rows the query returns.
Stale == ActiveRuns \cap cold

Of(c) == {r \in ActiveRuns : conn[r] = c}

\* mutant: the company's own run only
GuardsOwn(c) == IF c = All THEN ActiveRuns ELSE Of(c)

\* What _active_for_start(c) looks at: the connection's own run, and then the
\* all-companies run, or for an all-companies start every run - but nothing more
\* once a live one is found.
Guards(c) ==
  IF Of(c) \ Stale # {} THEN Of(c)
  ELSE IF c = All THEN ActiveRuns ELSE Of(c) \cup Of(All)

\* start_sync takes the process's lock; the ids it may need are still free.
Ask(s, c) ==
  /\ pc[s] = "idle" /\ lock[HomeOf[s]] = None
  /\ Cardinality({r \in Run : status[r] = "NONE"}) >
       Cardinality({u \in Starter : want[u] # None /\ mine[u] = None})
  /\ lock' = [lock EXCEPT ![HomeOf[s]] = s]
  /\ want' = [want EXCEPT ![s] = c]
  /\ pc' = [pc EXCEPT ![s] = "looking"]
  /\ UNCHANGED <<table, found, reaps, refused, mine, jobs, crashes, stalls>>

\* The guard reads, and flushes FAILED onto the stale rows it met.
Look(s) ==
  /\ pc[s] \in {"looking", "again"}
  /\ found' = [found EXCEPT ![s] = Guards(want[s]) \ Stale # {}]
  /\ reaps' = [reaps EXCEPT ![s] = Guards(want[s]) \cap Stale]
  /\ pc' = [pc EXCEPT ![s] = "looked"]
  /\ UNCHANGED <<table, lock, want, refused, mine, jobs, crashes, stalls>>

\* The status screen: active_runs, outside the lock.  Read the stale rows, then
\* commit with the response.
Poll(s) ==
  /\ pc[s] = "idle" /\ Stale # {}
  /\ found' = [found EXCEPT ![s] = TRUE]
  /\ reaps' = [reaps EXCEPT ![s] = Stale]
  /\ pc' = [pc EXCEPT ![s] = "looked"]
  /\ UNCHANGED <<table, lock, want, refused, mine, jobs, crashes, stalls>>

\* The flushed reaps are committed, by primary key.
Reaped(rs) == [r \in Run |-> IF r \in rs THEN "FAILED" ELSE status[r]]

\* The thread goes on with something else; with the block, its lock is released.
Return(s) ==
  /\ pc' = [pc EXCEPT ![s] = "idle"]
  /\ want' = [want EXCEPT ![s] = None]
  /\ found' = [found EXCEPT ![s] = FALSE]
  /\ reaps' = [reaps EXCEPT ![s] = {}]
  /\ refused' = [refused EXCEPT ![s] = 0]
  /\ mine' = [mine EXCEPT ![s] = None]
  /\ lock' = [p \in Proc |-> IF lock[p] = s THEN None ELSE lock[p]]

\* A live run is handed back; the request commits.
HandBack(s) ==
  /\ pc[s] = "looked" /\ found[s]
  /\ status' = Reaped(reaps[s])
  /\ cold' = cold \ reaps[s]
  /\ Return(s)
  /\ UNCHANGED <<conn, home, jobs, crashes, stalls>>

\* mutant: no unique indexes
NoClash(c, rs) == FALSE

\* uq_sync_run_active_connection and uq_sync_run_active_umbrella.
Clash(c, rs) == Of(c) \ rs # {}

\* A fresh id.
NewRun == CHOOSE r \in Run : status[r] = "NONE"

\* The insert commits, with the reaps, and the lock is released.
Insert(s) ==
  LET r == NewRun IN
  /\ pc[s] = "looked" /\ ~found[s]
  /\ r \in Run /\ status[r] = "NONE"
  /\ refused[s] < Refusals
  /\ ~Clash(want[s], reaps[s])
  /\ status' = [Reaped(reaps[s]) EXCEPT ![r] = "QUEUED"]
  /\ cold' = cold \ reaps[s]
  /\ conn' = [conn EXCEPT ![r] = want[s]]
  /\ home' = [home EXCEPT ![r] = HomeOf[s]]
  /\ mine' = [mine EXCEPT ![s] = r]
  /\ reaps' = [reaps EXCEPT ![s] = {}]
  /\ lock' = [lock EXCEPT ![HomeOf[s]] = None]
  /\ pc' = [pc EXCEPT ![s] = "dispatching"]
  /\ UNCHANGED <<want, found, refused, jobs, crashes, stalls>>

\* IntegrityError: everything of this transaction is rolled back, reaps included.
InsertRefused(s) ==
  /\ pc[s] = "looked" /\ ~found[s]
  /\ refused[s] < Refusals
  /\ Clash(want[s], reaps[s])
  /\ reaps' = [reaps EXCEPT ![s] = {}]
  /\ refused' = [refused EXCEPT ![s] = @ + 1]
  /\ pc' = [pc EXCEPT ![s] = "again"]
  /\ UNCHANGED <<table, lock, want, found, mine, jobs, crashes, stalls>>

\* The last refusal, and still nothing to hand back: the call raises.
Raise(s) ==
  /\ pc[s] = "looked" /\ ~found[s] /\ refused[s] = Refusals
  /\ Return(s)
  /\ UNCHANGED <<table, jobs, crashes, stalls>>

\* thread_dispatch starts the thread, queue_dispatch commits the message.
Dispatch(s) ==
  /\ pc[s] = "dispatching"
  /\ job' = [job EXCEPT ![mine[s]] = "waiting"]
  /\ at' = [at EXCEPT ![mine[s]] = IF Queue THEN None ELSE HomeOf[s]]
  /\ Return(s)
  /\ UNCHANGED <<table, seen, crashes, stalls>>
-----------------------------------------------------------------------------
(* run_job and execute_sync.                                               *)

\* run_job reads the row, in its thread or in whichever worker took the message.
Load(r, p) ==
  /\ job[r] = "waiting" /\ (Queue \/ at[r] = p)
  /\ job' = [job EXCEPT ![r] = "loaded"]
  /\ at' = [at EXCEPT ![r] = p]
  /\ seen' = [seen EXCEPT ![r] = status[r]]
  /\ UNCHANGED <<table, caller, crashes, stalls>>

\* The session writes RUNNING when the row it read said otherwise, and the index
\* allows it.
Begin(r) ==
  /\ job[r] = "loaded"
  /\ seen[r] = "RUNNING" \/ ~Clash(conn[r], {r})
  /\ status' = [status EXCEPT ![r] = IF seen[r] = "RUNNING" THEN @ ELSE "RUNNING"]
  /\ cold' = cold \ {r}
  /\ job' = [job EXCEPT ![r] = "pulling"]
  /\ UNCHANGED <<conn, home, caller, at, seen, crashes, stalls>>

\* A phase boundary after a long silence.
Beat(r) ==
  /\ job[r] = "pulling" /\ r \in cold
  /\ cold' = cold \ {r}
  /\ UNCHANGED <<status, conn, home, caller, jobs, crashes, stalls>>

\* mutant: run_job lets its exception out, and the message goes back
JobOverRetried(r) ==
  /\ job' = [job EXCEPT ![r] = IF Queue THEN "waiting" ELSE "done"]
  /\ seen' = [seen EXCEPT ![r] = "NONE"]
  /\ UNCHANGED <<conn, home, caller, at, crashes, stalls>>

\* run_job returns: the thread is gone; a message has yet to be completed.
JobOver(r) ==
  /\ job' = [job EXCEPT ![r] = IF Queue THEN "told" ELSE "done"]
  /\ seen' = [seen EXCEPT ![r] = "NONE"]
  /\ UNCHANGED <<conn, home, caller, at, crashes, stalls>>

\* execute_sync records how the pull ended, whatever the row has become.
Finish(r, outcome) ==
  /\ job[r] = "pulling"
  /\ status' = [status EXCEPT ![r] = outcome]
  /\ cold' = cold \ {r}
  /\ JobOver(r)

\* The job breaks outside execute_sync's handler, the index's refusal to make a
\* terminal run active again included: FAILED, if the row is still active.
Break(r) ==
  /\ \/ job[r] = "loaded" /\ seen[r] # "RUNNING" /\ Clash(conn[r], {r})
     \/ job[r] = "pulling"
  /\ status' = [status EXCEPT ![r] = IF r \in ActiveRuns THEN "FAILED" ELSE @]
  /\ cold' = cold \ {r}
  /\ JobOver(r)

\* The worker completes the message.
Complete(r) ==
  /\ job[r] = "told"
  /\ job' = [job EXCEPT ![r] = "done"]
  /\ UNCHANGED <<table, caller, at, seen, crashes, stalls>>

\* A process is killed and replaced.  Its threads are gone; a message it was
\* working on is delivered again.
Crash(p) ==
  /\ crashes < MaxCrashes /\ crashes' = crashes + 1
  /\ LET gone == {s \in Starter : HomeOf[s] = p}
         lost == {r \in Run : at[r] = p /\ job[r] \in {"waiting", "loaded", "pulling", "told"}} IN
     /\ lock' = [lock EXCEPT ![p] = None]
     /\ pc' = [s \in Starter |-> IF s \in gone THEN "idle" ELSE pc[s]]
     /\ want' = [s \in Starter |-> IF s \in gone THEN None ELSE want[s]]
     /\ found' = [s \in Starter |-> s \notin gone /\ found[s]]
     /\ reaps' = [s \in Starter |-> IF s \in gone THEN {} ELSE reaps[s]]
     /\ refused' = [s \in Starter |-> IF s \in gone THEN 0 ELSE refused[s]]
     /\ mine' = [s \in Starter |-> IF s \in gone THEN None ELSE mine[s]]
     /\ job' = [r \in Run |-> IF r \notin lost THEN job[r]
                              ELSE IF Queue THEN "waiting" ELSE "none"]
     /\ at' = [r \in Run |-> IF r \in lost THEN None ELSE at[r]]
     /\ seen' = [r \in Run |-> IF r \in lost THEN "NONE" ELSE seen[r]]
  /\ UNCHANGED <<table, stalls>>
-----------------------------------------------------------------------------
CallStep(s) ==
  \/ Look(s) \/ HandBack(s) \/ Insert(s) \/ InsertRefused(s) \/ Raise(s) \/ Dispatch(s)

JobStep(r) ==
  \/ \E p \in Proc : Load(r, p)
  \/ Begin(r) \/ Break(r) \/ Complete(r)
  \/ \E outcome \in Terminal : Finish(r, outcome)

Next ==
  \/ \E s \in Starter : CallStep(s) \/ Poll(s) \/ \E c \in Scope : Ask(s, c)
  \/ \E r \in Run : JobStep(r) \/ GoCold(r) \/ Stall(r) \/ Beat(r)
  \/ \E p \in Proc : Crash(p)

Spec == Init /\ [][Next]_vars

\* Calls and jobs go on, time passes, and somebody keeps the status screen open.
\* Nobody need start a pull.
Fairness ==
  /\ \A s \in Starter : WF_vars(CallStep(s)) /\ SF_vars(Poll(s))
  /\ \A r \in Run : WF_vars(JobStep(r)) /\ WF_vars(GoCold(r))

FairSpec == Spec /\ Fairness
-----------------------------------------------------------------------------
(* Properties.                                                             *)

\* Two pulls never work on one connection at once, whichever processes start
\* them and whichever of these die on the way.
OnePull ==
  \A q, r \in Run :
    job[q] = "pulling" /\ job[r] = "pulling" /\ conn[q] = conn[r] => q = r

\* What no index can express: an all-companies run and a company's run never
\* overlap when one process, and so one _start_lock, has started both.
LockExcludes ==
  \A q, r \in ActiveRuns :
    home[q] = home[r] /\ (conn[q] = conn[r] \/ All \in {conn[q], conn[r]}) => q = r

\* What a finished run says of itself is not rewritten by a reaper, nor a run
\* that was given up brought back.
VerdictFinal ==
  [][\A r \in Run : status[r] \in Terminal => status'[r] = status[r]]_vars

\* The promises of the history together, as the refinement of an abstract one: the
\* process that inserted a run answers for it, and then its job does, and what
\* somebody answers for is neither given up nor replaced.
Answered == {r \in Run : Live(r) \/ \E s \in Starter : mine[s] = r}

Ledger == INSTANCE RunLedger WITH Target <- Scope, alive <- Answered

IsRunLedger == Ledger!Spec

\* A run nobody works on does not hold its connection for ever.
NothingStuck == \A r \in Run : status[r] \in Active ~> status[r] \in Terminal

\* A run may be given up while its message waits, turn RUNNING again when that is
\* delivered, be pulled again when its worker has died before completing the message,
\* and be given up by a reaper that read it before: in the end it has one verdict and
\* keeps it (run_job swallows what goes wrong, so that its message is completed).
EndsForGood ==
  \A r \in Run : \/ <>[](status[r] = "NONE")
                 \/ <>[](status[r] = "OK")
                 \/ <>[](status[r] = "FAILED")
=============================================================================
