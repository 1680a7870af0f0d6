---------------------------- MODULE SyncScheduler ----------------------------
(***************************************************************************)
(* Who starts the automatic pulls: the process lease of app/leases.py and   *)
(* the loop of app/ingestion/scheduler.py, run by every API process.        *)
(*                                                                          *)
(* Time is relative and therefore unbounded: the lease row keeps the time   *)
(* left, a process the age of the `now` it read, a run the age of its start.*)
(* All processes read one clock.  start_sync is reduced to its answer -     *)
(* hand back the run in flight or queue one; SyncJobs models it whole.      *)
(***************************************************************************)
EXTENDS Integers, FiniteSets

CONSTANTS
  Proc,      \* processes, one holder_id() each; a dead one does not come back
  Org,       \* organizations with an enabled connection
  Hours,     \* auto_sync_hours of each, 0 for off
  None,      \* no lease row
  TTL,       \* LEASE_TTL
  MaxPass,   \* the longest pass: from reading `now` to the end of the tick
  Horizon,   \* ages are counted up to here
  MaxFaults  \* bound on failed passes

ASSUME SchedulerAssumption ==
  /\ None \notin Proc
  /\ TTL \in Nat /\ MaxPass \in Nat /\ Horizon \in Nat /\ MaxFaults \in Nat
  /\ Hours \in [Org -> 0..Horizon]

\* LEASE_TTL: "comfortably more than a tick, so a slow pass does not lose the
\* lease to a peer mid-tick".
ASSUME PassFitsLease == MaxPass < TTL

VARIABLES
  holder,    \* process_leases.holder of the row, None while there is no row
  left,      \* expires_at - now, down to -MaxPass
  pc,
  age,       \* now - (the `now` this pass of the process read)
  sawRow,    \* acquire's session.get found a row
  held,      \* the loop's local: did the last acquire that answered say yes
  snap,      \* ages of last_started, as the tick read them
  todo,      \* organizations this tick has yet to visit
  active,    \* organizations with a run in flight
  started,   \* age of each organization's newest run
  auto,      \* age of its newest run started by the scheduler (history)
  faults

lease == <<holder, left>>
loop  == <<pc, age, sawRow, held, snap, todo>>
runs  == <<active, started, auto>>
vars  == <<lease, loop, runs, faults>>

\* Between asking for the lease and the end of the tick.
Busy(p) == pc[p] \in {"asking", "reading", "ticking"}

\* The process acts on being the one that ticks.
Leading(p) == pc[p] \in {"reading", "ticking"}

Ages == [Org -> 0..Horizon]

TypeOK ==
  /\ holder \in Proc \cup {None}
  /\ left \in (0 - MaxPass)..TTL
  /\ pc \in [Proc -> {"asleep", "asking", "reading", "ticking", "leaving", "gone"}]
  /\ age \in [Proc -> 0..MaxPass]
  /\ sawRow \in [Proc -> BOOLEAN]
  /\ held \in [Proc -> BOOLEAN]
  /\ snap \in [Proc -> Ages]
  /\ todo \in [Proc -> SUBSET Org]
  /\ active \in SUBSET Org
  /\ started \in Ages /\ auto \in Ages
  /\ faults \in 0..MaxFaults

\* start_scheduler has started the thread in every process; nobody has ticked.
\* An organization that never synced is due at once: its age is past any cadence.
Init ==
  /\ holder = None /\ left = 0
  /\ pc = [p \in Proc |-> "asleep"]
  /\ age = [p \in Proc |-> 0]
  /\ sawRow = [p \in Proc |-> FALSE]
  /\ held = [p \in Proc |-> FALSE]
  /\ snap = [p \in Proc |-> [o \in Org |-> Horizon]]
  /\ todo = [p \in Proc |-> {}]
  /\ active = {}
  /\ started = [o \in Org |-> Horizon]
  /\ auto = [o \in Org |-> Horizon]
  /\ faults = 0

-----------------------------------------------------------------------------
(* Time.                                                                   *)

Older(ages) == [o \in Org |-> IF ages[o] < Horizon THEN ages[o] + 1 ELSE Horizon]

\* A unit of time passes.  A pass is never longer than MaxPass.
Elapse ==
  /\ \A p \in Proc : Busy(p) => age[p] < MaxPass
  /\ left' = IF left > 0 - MaxPass THEN left - 1 ELSE left
  /\ age' = [p \in Proc |-> IF Busy(p) THEN age[p] + 1 ELSE 0]
  /\ snap' = [p \in Proc |-> Older(snap[p])]
  /\ started' = Older(started)
  /\ auto' = Older(auto)
  /\ UNCHANGED <<holder, pc, sawRow, held, todo, active, faults>>
-----------------------------------------------------------------------------
(* leases.acquire, leases.release.                                         *)

\* The loop wakes; acquire reads `now` and looks for the row.
Ask(p) ==
  /\ pc[p] = "asleep"
  /\ pc' = [pc EXCEPT ![p] = "asking"]
  /\ age' = [age EXCEPT ![p] = 0]
  /\ sawRow' = [sawRow EXCEPT ![p] = holder # None]
  /\ UNCHANGED <<lease, held, snap, todo, runs, faults>>

\* mutant: anyone may take a lease that is about to expire
FreeToTakeEarly(p) == \/ ~sawRow[p] /\ holder = None
                      \/ sawRow[p] /\ (holder = p \/ left - 1 <= 0 - age[p])

\* mutant: an expired lease is its old holder's to renew, nobody else's to take
FreeToHolder(p) == \/ ~sawRow[p] /\ holder = None
                   \/ sawRow[p] /\ holder = p

\* The INSERT succeeds, or the UPDATE's WHERE clause admits this process: it is
\* the holder, or expires_at <= the `now` it read.
FreeToTake(p) == \/ ~sawRow[p] /\ holder = None
                 \/ sawRow[p] /\ (holder = p \/ left <= 0 - age[p])

\* expires_at is ttl after the `now` that acquire read.
LeaseLeft(p) == TTL - age[p]

Granted(p) ==
  /\ pc[p] = "asking" /\ FreeToTake(p)
  /\ holder' = p
  /\ left' = LeaseLeft(p)
  /\ held' = [held EXCEPT ![p] = TRUE]
  /\ pc' = [pc EXCEPT ![p] = "reading"]
  /\ UNCHANGED <<age, sawRow, snap, todo, runs, faults>>

\* The pass ends; the loop sleeps.
Rest(p) ==
  /\ pc' = [pc EXCEPT ![p] = "asleep"]
  /\ age' = [age EXCEPT ![p] = 0]
  /\ sawRow' = [sawRow EXCEPT ![p] = FALSE]
  /\ snap' = [snap EXCEPT ![p] = [o \in Org |-> Horizon]]
  /\ todo' = [todo EXCEPT ![p] = {}]

Refused(p) ==
  /\ pc[p] = "asking" /\ ~FreeToTake(p)
  /\ held' = [held EXCEPT ![p] = FALSE]
  /\ Rest(p)
  /\ UNCHANGED <<lease, runs, faults>>

\* mutant: whoever stops drops the lease
MayReleaseAny(p) == TRUE

MayRelease(p) == holder = p

\* The loop has been stopped: give the lease up if the last answer was yes.
Release(p) ==
  /\ pc[p] = "leaving"
  /\ pc' = [pc EXCEPT ![p] = "gone"]
  /\ left' = IF held[p] /\ MayRelease(p) THEN 0 ELSE left
  /\ held' = [held EXCEPT ![p] = FALSE]
  /\ UNCHANGED <<holder, age, sawRow, snap, todo, runs, faults>>
-----------------------------------------------------------------------------
(* scheduler.tick and the loop around it.                                  *)

\* mutant: due one unit of time early
DueEarly(ages, o) == Hours[o] > 0 /\ ages[o] + 1 >= Hours[o]

Due(ages, o) == Hours[o] > 0 /\ ages[o] >= Hours[o]

\* The tick reads every organization's newest start at once.
Read(p) ==
  /\ pc[p] = "reading"
  /\ pc' = [pc EXCEPT ![p] = "ticking"]
  /\ snap' = [snap EXCEPT ![p] = started]
  /\ todo' = [todo EXCEPT ![p] = Org]
  /\ UNCHANGED <<lease, age, sawRow, held, runs, faults>>

\* start_sync for an organization that is due by what the tick read: a run in
\* flight is handed back, otherwise one is queued.
StartSync(p, o) ==
  /\ pc[p] = "ticking" /\ o \in todo[p]
  /\ Due(snap[p], o) /\ o \notin active
  /\ active' = active \cup {o}
  /\ started' = [started EXCEPT ![o] = 0]
  /\ auto' = [auto EXCEPT ![o] = 0]
  /\ todo' = [todo EXCEPT ![p] = @ \ {o}]
  /\ UNCHANGED <<lease, pc, age, sawRow, held, snap, faults>>

Skip(p, o) ==
  /\ pc[p] = "ticking" /\ o \in todo[p]
  /\ ~Due(snap[p], o) \/ o \in active
  /\ todo' = [todo EXCEPT ![p] = @ \ {o}]
  /\ UNCHANGED <<lease, pc, age, sawRow, held, snap, runs, faults>>

TickDone(p) ==
  /\ pc[p] = "ticking" /\ todo[p] = {}
  /\ Rest(p)
  /\ UNCHANGED <<lease, held, runs, faults>>

\* acquire or the tick raises: the loop logs it and sleeps; what the tick has
\* not visited waits for the next one, and held keeps its last answer.
PassFails(p) ==
  /\ Busy(p) /\ faults < MaxFaults
  /\ faults' = faults + 1
  /\ Rest(p)
  /\ UNCHANGED <<lease, held, runs>>

\* _stop is set; the loop sees it when its pass and its sleep are over.
Stop(p) ==
  /\ pc[p] = "asleep"
  /\ pc' = [pc EXCEPT ![p] = "leaving"]
  /\ UNCHANGED <<lease, age, sawRow, held, snap, todo, runs, faults>>

\* The process is killed, and does not get to release.
Kill(p) ==
  /\ pc[p] # "gone"
  /\ pc' = [pc EXCEPT ![p] = "gone"]
  /\ age' = [age EXCEPT ![p] = 0]
  /\ sawRow' = [sawRow EXCEPT ![p] = FALSE]
  /\ held' = [held EXCEPT ![p] = FALSE]
  /\ snap' = [snap EXCEPT ![p] = [o \in Org |-> Horizon]]
  /\ todo' = [todo EXCEPT ![p] = {}]
  /\ UNCHANGED <<lease, runs, faults>>
-----------------------------------------------------------------------------
(* The runs themselves: a person starts one, and a run ends.               *)

ManualSync(o) ==
  /\ o \notin active
  /\ active' = active \cup {o}
  /\ started' = [started EXCEPT ![o] = 0]
  /\ UNCHANGED <<lease, loop, auto, faults>>

RunEnds(o) ==
  /\ o \in active
  /\ active' = active \ {o}
  /\ UNCHANGED <<lease, loop, started, auto, faults>>
-----------------------------------------------------------------------------
LoopStep(p) ==
  \/ Ask(p) \/ Granted(p) \/ Refused(p) \/ Release(p)
  \/ Read(p) \/ TickDone(p)
  \/ \E o \in Org : StartSync(p, o) \/ Skip(p, o)

Next ==
  \/ Elapse
  \/ \E p \in Proc : LoopStep(p) \/ PassFails(p) \/ Stop(p) \/ Kill(p)
  \/ \E o \in Org : ManualSync(o) \/ RunEnds(o)

Spec == Init /\ [][Next]_vars

\* Threads that run take their next step, runs end and time passes.  Nobody need
\* ask for a sync, and passes fail MaxFaults times at most.
Fairness ==
  /\ WF_vars(Elapse)
  /\ \A p \in Proc : WF_vars(LoopStep(p))
  /\ \A o \in Org : WF_vars(RunEnds(o))

FairSpec == Spec /\ Fairness
-----------------------------------------------------------------------------
(* Properties.                                                             *)

\* Only the holder decides anything: whatever is killed, stopped, slow within
\* its bound or woken at the same instant, two processes never tick at once.
OneTicker == \A p, q \in Proc : Leading(p) /\ Leading(q) => p = q

\* The lease of the process that ticks is still running, so nobody can be about
\* to take it over.
LeaseOutlivesTick == \A p \in Proc : Leading(p) => holder = p /\ left > 0

\* Two automatic pulls of one organization start at least its cadence apart,
\* although each tick decides by starts it read some time before.
CadenceKept ==
  [][\A p \in Proc, o \in Org : StartSync(p, o) => auto[o] >= Hours[o]]_vars

\* The schedule survives whichever process was holding it: as long as one
\* process stays, some process ticks again and again.
SomebodyTicks ==
  (<>[](\A p \in Proc : pc[p] \in {"leaving", "gone"}))
    \/ []<>(\E p \in Proc : pc[p] = "ticking")
=============================================================================
