--------------------------- MODULE SyncJobsProofs ---------------------------
(***************************************************************************)
(* What holds of SyncJobs for every number of processes, threads, companies *)
(* and runs: the types in both dispatch modes with any crashes and stalls,  *)
(* the rest in thread dispatch with any crashes.                            *)
(***************************************************************************)
EXTENDS SyncJobs, TLAPS

\* Who has asked for something, and where such a call can be.
Callers ==
  \A s \in Starter :
    /\ pc[s] = "idle" => want[s] = None
    /\ want[s] = None => pc[s] = "idle" \/ (pc[s] = "looked" /\ found[s])

Inv == TypeOK /\ Callers

LEMMA InitInv == Init => Inv
  BY JobsAssumption DEF Init, Inv, TypeOK, Callers, Active, Terminal, Scope

\* The reaped rows leave the active ones; nothing else changes.
LEMMA ReapedType ==
  ASSUME TypeOK, NEW rs \in SUBSET Run
  PROVE  /\ Reaped(rs) \in [Run -> {"NONE"} \cup Active \cup Terminal]
         /\ \A r \in Run : Reaped(rs)[r] \in Active <=> status[r] \in Active /\ r \notin rs
  BY DEF Reaped, TypeOK, Active, Terminal

LEMMA StaleType == Stale \in SUBSET Run
  BY DEF Stale, ActiveRuns

\* A call that ends leaves every lock with the thread that holds it.
LEMMA ReturnType ==
  ASSUME Inv, NEW s \in Starter, Return(s)
  PROVE  /\ lock' \in [Proc -> Starter \cup {None}]
         /\ pc' \in [Starter -> {"idle", "looking", "looked", "again", "dispatching"}]
         /\ want' \in [Starter -> Scope \cup {None}]
         /\ found' \in [Starter -> BOOLEAN]
         /\ reaps' \in [Starter -> SUBSET Run]
         /\ refused' \in [Starter -> 0..Refusals]
         /\ mine' \in [Starter -> Run \cup {None}]
         /\ \A u \in Starter :
              lock'[HomeOf[u]] = u <=> want'[u] # None /\ pc'[u] \in {"looking", "looked", "again"}
         /\ Callers'
<1>1. s # None /\ None \notin Starter /\ HomeOf \in [Starter -> Proc]
  BY JobsAssumption
<1>2. /\ lock' \in [Proc -> Starter \cup {None}]
      /\ \A p \in Proc : lock'[p] = IF lock[p] = s THEN None ELSE lock[p]
  BY DEF Inv, TypeOK, Return
<1>3. /\ pc' \in [Starter -> {"idle", "looking", "looked", "again", "dispatching"}]
      /\ want' \in [Starter -> Scope \cup {None}]
      /\ found' \in [Starter -> BOOLEAN]
      /\ reaps' \in [Starter -> SUBSET Run]
      /\ refused' \in [Starter -> 0..Refusals]
      /\ mine' \in [Starter -> Run \cup {None}]
  BY JobsAssumption DEF Inv, TypeOK, Return
<1>4. /\ pc'[s] = "idle" /\ want'[s] = None
      /\ \A u \in Starter \ {s} : pc'[u] = pc[u] /\ want'[u] = want[u] /\ found'[u] = found[u]
  BY DEF Inv, TypeOK, Return
<1>5. \A u \in Starter :
        lock'[HomeOf[u]] = u <=> want'[u] # None /\ pc'[u] \in {"looking", "looked", "again"}
  BY <1>1, <1>2, <1>4 DEF Inv, TypeOK
<1>6. Callers'
  BY <1>4 DEF Inv, Callers
<1> QED BY <1>2, <1>3, <1>5, <1>6

-----------------------------------------------------------------------------
\* Every step but a call's leaves the callers alone.
LEMMA CallersKept ==
  ASSUME Inv, UNCHANGED caller
  PROVE  Callers'
  BY DEF Inv, Callers, caller

\* Every variable keeps its type, an active row is the only one that can be cold,
\* and a thread holds its process's lock exactly while start_sync looks and inserts.
LEMMA StepInv == Inv /\ [Next]_vars => Inv'
<1> SUFFICES ASSUME Inv, [Next]_vars PROVE Inv' OBVIOUS
<1> USE DEF Scope
<1>a. CASE UNCHANGED vars
  BY <1>a DEF Inv, TypeOK, Callers, vars, table, caller, jobs
<1>b. ASSUME NEW s \in Starter, CallStep(s) PROVE Inv'
  <2>1. CASE Look(s)
    <3>1. Guards(want[s]) \cap Stale \in SUBSET Run BY StaleType
    <3>2. TypeOK'
      BY <2>1, <3>1 DEF Look, Inv, TypeOK, Callers, table, jobs
    <3>3. Callers'
      BY <2>1 DEF Look, Inv, TypeOK, Callers
    <3> QED BY <3>2, <3>3 DEF Inv
  <2>2. CASE HandBack(s)
    <3>1. reaps[s] \in SUBSET Run BY DEF Inv, TypeOK
    <3>2. status' = Reaped(reaps[s]) /\ cold' = cold \ reaps[s] /\ Return(s)
          /\ UNCHANGED <<conn, home, jobs, crashes, stalls>>
      BY <2>2 DEF HandBack
    <3>3. TypeOK'
      BY <3>1, <3>2, ReapedType, ReturnType DEF Inv, TypeOK, jobs
    <3> QED BY <3>2, <3>3, ReturnType DEF Inv
  <2>3. CASE Insert(s)
    <3> DEFINE r == NewRun
    <3> HIDE DEF r
    <3>1. /\ r \in Run /\ status[r] = "NONE" /\ pc[s] = "looked" /\ ~found[s]
          /\ status' = [Reaped(reaps[s]) EXCEPT ![r] = "QUEUED"]
          /\ cold' = cold \ reaps[s]
          /\ conn' = [conn EXCEPT ![r] = want[s]]
          /\ home' = [home EXCEPT ![r] = HomeOf[s]]
          /\ mine' = [mine EXCEPT ![s] = r]
          /\ reaps' = [reaps EXCEPT ![s] = {}]
          /\ lock' = [lock EXCEPT ![HomeOf[s]] = None]
          /\ pc' = [pc EXCEPT ![s] = "dispatching"]
          /\ UNCHANGED <<want, found, refused, jobs, crashes, stalls>>
      BY <2>3 DEF Insert, r
    <3>2. reaps[s] \in SUBSET Run BY DEF Inv, TypeOK
    <3>3. want[s] # None /\ lock[HomeOf[s]] = s /\ HomeOf[s] \in Proc
      BY <3>1, JobsAssumption DEF Inv, TypeOK, Callers
    <3>4. /\ status' \in [Run -> {"NONE"} \cup Active \cup Terminal]
          /\ cold' \in SUBSET {q \in Run : status'[q] \in Active}
      BY <3>1, <3>2, ReapedType DEF Inv, TypeOK, Active
    <3>5. /\ conn' \in [Run -> Scope \cup {None}] /\ home' \in [Run -> Proc \cup {None}]
          /\ mine' \in [Starter -> Run \cup {None}] /\ reaps' \in [Starter -> SUBSET Run]
          /\ pc' \in [Starter -> {"idle", "looking", "looked", "again", "dispatching"}]
          /\ lock' \in [Proc -> Starter \cup {None}]
      BY <3>1, <3>3 DEF Inv, TypeOK
    <3>6. \A u \in Starter :
            lock'[HomeOf[u]] = u <=> want'[u] # None /\ pc'[u] \in {"looking", "looked", "again"}
      BY <3>1, <3>3, JobsAssumption DEF Inv, TypeOK
    <3>7. Callers'
      BY <3>1, <3>3 DEF Inv, Callers, TypeOK
    <3> QED BY <3>1, <3>4, <3>5, <3>6, <3>7 DEF Inv, TypeOK, jobs
  <2>4. CASE InsertRefused(s)
    <3>1. refused' \in [Starter -> 0..Refusals] /\ reaps' \in [Starter -> SUBSET Run]
      BY <2>4, JobsAssumption DEF InsertRefused, Inv, TypeOK
    <3>2. TypeOK'
      BY <2>4, <3>1 DEF InsertRefused, Inv, TypeOK, Callers, table, jobs
    <3>3. Callers'
      BY <2>4 DEF InsertRefused, Inv, TypeOK, Callers
    <3> QED BY <3>2, <3>3 DEF Inv
  <2>5. CASE Raise(s)
    <3>1. Return(s) /\ UNCHANGED <<table, jobs, crashes, stalls>> BY <2>5 DEF Raise
    <3>2. TypeOK' BY <3>1, ReturnType DEF Inv, TypeOK, table, jobs
    <3> QED BY <3>1, <3>2, ReturnType DEF Inv
  <2>6. CASE Dispatch(s)
    <3>1. Return(s) /\ UNCHANGED <<table, seen, crashes, stalls>> BY <2>6 DEF Dispatch
    <3>2. /\ job' \in [Run -> {"none", "waiting", "loaded", "pulling", "told", "done"}]
          /\ at' \in [Run -> Proc \cup {None}]
      BY <2>6, JobsAssumption DEF Dispatch, Inv, TypeOK
    <3>3. TypeOK' BY <3>1, <3>2, ReturnType DEF Inv, TypeOK, table
    <3> QED BY <3>1, <3>3, ReturnType DEF Inv
  <2> QED BY <1>b, <2>1, <2>2, <2>3, <2>4, <2>5, <2>6 DEF CallStep
<1>c. ASSUME NEW s \in Starter, Poll(s) PROVE Inv'
  <2>1. TypeOK'
    BY <1>c, StaleType DEF Poll, Inv, TypeOK, Callers, table, jobs
  <2>2. Callers'
    BY <1>c DEF Poll, Inv, TypeOK, Callers
  <2> QED BY <2>1, <2>2 DEF Inv
<1>d. ASSUME NEW s \in Starter, NEW c \in Scope, Ask(s, c) PROVE Inv'
  <2>1. HomeOf \in [Starter -> Proc] /\ c # None /\ None \notin Starter
    BY JobsAssumption
  <2>2. \A u \in Starter :
          lock'[HomeOf[u]] = u <=> want'[u] # None /\ pc'[u] \in {"looking", "looked", "again"}
    <3>1. /\ lock[HomeOf[s]] = None /\ lock' = [lock EXCEPT ![HomeOf[s]] = s]
          /\ want' = [want EXCEPT ![s] = c] /\ pc' = [pc EXCEPT ![s] = "looking"]
      BY <1>d DEF Ask
    <3>2. lock'[HomeOf[s]] = s /\ want'[s] = c /\ pc'[s] = "looking"
      BY <2>1, <3>1 DEF Inv, TypeOK
    <3>3. ASSUME NEW u \in Starter \ {s}
          PROVE  lock'[HomeOf[u]] = u <=> lock[HomeOf[u]] = u
      BY <2>1, <3>1 DEF Inv, TypeOK
    <3>4. \A u \in Starter \ {s} : want'[u] = want[u] /\ pc'[u] = pc[u]
      BY <3>1 DEF Inv, TypeOK
    <3> QED BY <2>1, <3>2, <3>3, <3>4 DEF Inv, TypeOK
  <2>3. TypeOK'
    BY <1>d, <2>1, <2>2 DEF Ask, Inv, TypeOK, table, jobs
  <2>4. Callers'
    BY <1>d, <2>1 DEF Ask, Inv, TypeOK, Callers
  <2> QED BY <2>3, <2>4 DEF Inv
<1>e. ASSUME NEW r \in Run, JobStep(r) PROVE Inv'
  <2> USE DEF Active, Terminal
  <2>1. ASSUME NEW p \in Proc, Load(r, p) PROVE TypeOK' /\ UNCHANGED caller
    BY <2>1 DEF Load, Inv, TypeOK, table, caller
  <2>2. CASE Begin(r)
    <3>1. TypeOK' /\ UNCHANGED caller
      BY <2>2 DEF Begin, Inv, TypeOK, caller
    <3> QED BY <3>1, CallersKept DEF Inv
  <2>3. ASSUME NEW outcome \in Terminal, Finish(r, outcome) PROVE TypeOK' /\ UNCHANGED caller
    BY <2>3 DEF Finish, JobOver, Inv, TypeOK, caller
  <2>4. CASE Break(r)
    <3>1. TypeOK' /\ UNCHANGED caller
      BY <2>4 DEF Break, JobOver, ActiveRuns, Inv, TypeOK, caller
    <3> QED BY <3>1, CallersKept DEF Inv
  <2>5. CASE Complete(r)
    <3>1. TypeOK' /\ UNCHANGED caller
      BY <2>5 DEF Complete, Inv, TypeOK, table, caller
    <3> QED BY <3>1, CallersKept DEF Inv
  <2> QED BY <1>e, <2>1, <2>2, <2>3, <2>4, <2>5, CallersKept DEF JobStep, Inv
<1>f. ASSUME NEW r \in Run, GoCold(r) \/ Stall(r) \/ Beat(r) PROVE Inv'
  <2>1. /\ cold' \in SUBSET {q \in Run : status[q] \in Active}
        /\ stalls' \in 0..MaxStalls
        /\ UNCHANGED <<status, conn, home, caller, jobs, crashes>>
    BY <1>f, JobsAssumption DEF GoCold, Stall, Beat, ActiveRuns, Inv, TypeOK
  <2>2. TypeOK'
    BY <2>1 DEF Inv, TypeOK, caller, jobs
  <2> QED BY <2>1, <2>2, CallersKept DEF Inv
<1>g. ASSUME NEW p \in Proc, Crash(p) PROVE Inv'
  <2> DEFINE gone == {s \in Starter : HomeOf[s] = p}
  <2>1. /\ lock' \in [Proc -> Starter \cup {None}]
        /\ pc' \in [Starter -> {"idle", "looking", "looked", "again", "dispatching"}]
        /\ want' \in [Starter -> Scope \cup {None}]
        /\ found' \in [Starter -> BOOLEAN]
        /\ reaps' \in [Starter -> SUBSET Run]
        /\ refused' \in [Starter -> 0..Refusals]
        /\ mine' \in [Starter -> Run \cup {None}]
        /\ crashes' \in 0..MaxCrashes
        /\ UNCHANGED <<table, stalls>>
    BY <1>g, JobsAssumption DEF Crash, Inv, TypeOK
  <2>2. /\ job' \in [Run -> {"none", "waiting", "loaded", "pulling", "told", "done"}]
        /\ at' \in [Run -> Proc \cup {None}]
        /\ seen' \in [Run -> {"NONE"} \cup Active \cup Terminal]
    BY <1>g DEF Crash, Inv, TypeOK
  <2>3. /\ \A s \in gone : pc'[s] = "idle" /\ want'[s] = None
        /\ \A s \in Starter \ gone : pc'[s] = pc[s] /\ want'[s] = want[s] /\ found'[s] = found[s]
        /\ lock' = [lock EXCEPT ![p] = None]
    BY <1>g DEF Crash, Inv, TypeOK
  <2>4. \A u \in Starter :
          lock'[HomeOf[u]] = u <=> want'[u] # None /\ pc'[u] \in {"looking", "looked", "again"}
    BY <2>3, JobsAssumption DEF Inv, TypeOK
  <2>5. Callers'
    BY <2>3 DEF Inv, Callers
  <2> QED BY <2>1, <2>2, <2>4, <2>5 DEF Inv, TypeOK, table
<1> QED BY <1>a, <1>b, <1>c, <1>d, <1>e, <1>f, <1>g DEF Next

\* The columns of sync_runs, the locks and the jobs keep their types: the lock of
\* a process is held by exactly the thread that is between its look and its insert.
THEOREM TypeCorrect == Spec => []TypeOK
<1>1. Spec => []Inv BY InitInv, StepInv, PTL DEF Spec
<1> QED BY <1>1, PTL DEF Inv

-----------------------------------------------------------------------------
(* The partial unique indexes.                                             *)

\* What the indexes say of the table, here for the proofs below to use: a connection
\* has one active row at most.
OneActiveRow == \A q, r \in ActiveRuns : conn[q] = conn[r] => q = r

\* A step that makes no row active and moves none to another connection.
LEMMA NoneAdded ==
  ASSUME Inv, OneActiveRow, NEW A, A = ActiveRuns', A \subseteq ActiveRuns,
         \A r \in A : conn'[r] = conn[r]
  PROVE  OneActiveRow'
  BY DEF OneActiveRow, ActiveRuns

LEMMA StepOneRow == Inv /\ OneActiveRow /\ [Next]_vars => OneActiveRow'
<1> SUFFICES ASSUME Inv, OneActiveRow, [Next]_vars PROVE OneActiveRow' OBVIOUS
<1> USE DEF ActiveRuns
<1>1. CASE UNCHANGED <<status, conn>>
  BY <1>1, NoneAdded
<1>2. ASSUME NEW s \in Starter, HandBack(s) PROVE OneActiveRow'
  <2>1. reaps[s] \in SUBSET Run /\ TypeOK BY DEF Inv, TypeOK
  <2>2. status' = Reaped(reaps[s]) /\ conn' = conn BY <1>2 DEF HandBack
  <2>3. \A q \in Run : q \in ActiveRuns' => q \in ActiveRuns
    BY <2>1, <2>2, ReapedType
  <2> QED BY <2>2, <2>3, NoneAdded
<1>3. ASSUME NEW s \in Starter, Insert(s) PROVE OneActiveRow'
  <2> DEFINE r == NewRun
  <2> HIDE DEF r
  <2>1. /\ r \in Run /\ status[r] = "NONE"
        /\ ~Clash(want[s], reaps[s])
        /\ status' = [Reaped(reaps[s]) EXCEPT ![r] = "QUEUED"]
        /\ conn' = [conn EXCEPT ![r] = want[s]]
    BY <1>3 DEF Insert, r
  <2>2. reaps[s] \in SUBSET Run /\ TypeOK BY DEF Inv, TypeOK
  <2>3. \A q \in Run \ {r} : q \in ActiveRuns' => q \in ActiveRuns /\ q \notin reaps[s]
    BY <2>1, <2>2, ReapedType
  <2>4. \A q \in Run \ {r} : conn'[q] = conn[q]
    BY <2>1, <2>2 DEF TypeOK
  <2>5. \A q \in Run \ {r} : q \in ActiveRuns' => conn'[q] # want[s]
    BY <2>1, <2>3, <2>4 DEF Clash, Of
  <2>6. conn'[r] = want[s] BY <2>1, <2>2 DEF TypeOK
  <2> QED BY <2>1, <2>3, <2>4, <2>5, <2>6 DEF OneActiveRow
<1>4. ASSUME NEW r \in Run, Begin(r) PROVE OneActiveRow'
  <2>1. conn' = conn /\ TypeOK BY <1>4 DEF Begin, Inv
  <2>2. CASE seen[r] = "RUNNING"
    <3>1. status' = status BY <1>4, <2>1, <2>2 DEF Begin, TypeOK
    <3> QED BY <2>1, <3>1, NoneAdded
  <2>3. CASE ~Clash(conn[r], {r})
    <3>1. \A q \in Run \ {r} : status'[q] = status[q]
      BY <1>4, <2>1 DEF Begin, TypeOK
    <3>2. \A q \in Run \ {r} : q \in ActiveRuns' => q \in ActiveRuns /\ conn'[q] # conn[r]
      BY <2>1, <2>3, <3>1 DEF Clash, Of
    <3> QED BY <2>1, <3>2 DEF OneActiveRow
  <2> QED BY <1>4, <2>2, <2>3 DEF Begin
<1>5. ASSUME NEW r \in Run, NEW outcome \in Terminal, Finish(r, outcome) PROVE OneActiveRow'
  <2>1. conn' = conn /\ \A q \in Run : q \in ActiveRuns' => q \in ActiveRuns
    BY <1>5 DEF Finish, JobOver, Inv, TypeOK, Active, Terminal
  <2> QED BY <2>1, NoneAdded
<1>6. ASSUME NEW r \in Run, Break(r) PROVE OneActiveRow'
  <2>1. conn' = conn /\ \A q \in Run : q \in ActiveRuns' => q \in ActiveRuns
    BY <1>6 DEF Break, JobOver, Inv, TypeOK, Active
  <2> QED BY <2>1, NoneAdded
<1>7. ASSUME NEW s \in Starter,
             \/ Look(s) \/ InsertRefused(s) \/ Raise(s) \/ Dispatch(s) \/ Poll(s)
             \/ \E c \in Scope : Ask(s, c)
      PROVE  UNCHANGED <<status, conn>>
  BY <1>7 DEF Look, InsertRefused, Raise, Dispatch, Poll, Ask, table
<1>8. ASSUME NEW r \in Run,
             \/ \E p \in Proc : Load(r, p)
             \/ Complete(r) \/ GoCold(r) \/ Stall(r) \/ Beat(r)
      PROVE  UNCHANGED <<status, conn>>
  BY <1>8 DEF Load, Complete, GoCold, Stall, Beat, table
<1>9. ASSUME NEW p \in Proc, Crash(p) PROVE UNCHANGED <<status, conn>>
  BY <1>9 DEF Crash, table
<1>10. CASE UNCHANGED vars BY <1>1, <1>10 DEF vars, table
<1> QED BY <1>1, <1>2, <1>3, <1>4, <1>5, <1>6, <1>7, <1>8, <1>9, <1>10
        DEF Next, CallStep, JobStep

LEMMA OneRow == Spec => []OneActiveRow
<1>1. Init => OneActiveRow
  BY DEF Init, OneActiveRow, ActiveRuns, Active
<1> QED BY <1>1, InitInv, StepInv, StepOneRow, PTL DEF Spec
-----------------------------------------------------------------------------
(* Thread mode: SYNC_DISPATCH=thread and no phase longer than STALE_AFTER.  *)

ThreadMode == ~Queue /\ MaxStalls = 0

\* A run's row says what its thread is doing, and only a run without one ages.
JobFits ==
  \A r \in Run :
    /\ job[r] # "told"
    /\ job[r] \in {"waiting", "loaded"} => status[r] = "QUEUED"
    /\ job[r] = "loaded" => seen[r] = "QUEUED"
    /\ job[r] = "pulling" => status[r] = "RUNNING"
    /\ job[r] = "done" => status[r] \in Terminal
    /\ r \in cold => job[r] = "none"
    /\ status[r] = "NONE" => job[r] = "none"

\* The run a call has inserted and not dispatched is its own, fresh and queued.
MineFits ==
  \A s \in Starter :
    /\ pc[s] = "dispatching" <=> mine[s] # None
    /\ mine[s] # None =>
         /\ status[mine[s]] = "QUEUED" /\ job[mine[s]] = "none" /\ mine[s] \notin cold
         /\ \A u \in Starter : mine[u] = mine[s] => u = s

\* What is about to be reaped is abandoned still, or has been given up since.
ReapsFit == \A s \in Starter : \A r \in reaps[s] : r \in cold \/ status[r] = "FAILED"

Conflict(c, d) == c = d \/ All \in {c, d}

\* While a call that found nothing to hand back holds the lock, no run of its
\* process stands in its way but those it will reap.
GuardFits ==
  \A s \in Starter :
    pc[s] = "looked" /\ want[s] # None /\ ~found[s] =>
      \A r \in ActiveRuns :
        home[r] = HomeOf[s] /\ Conflict(conn[r], want[s]) => r \in reaps[s]

ThreadInv == JobFits /\ MineFits /\ ReapsFit /\ GuardFits /\ LockExcludes

LEMMA InitThread == Init => ThreadInv
  BY JobsAssumption DEF Init, ThreadInv, JobFits, MineFits, ReapsFit, GuardFits,
     LockExcludes, ActiveRuns, Active

\* A call that ends: no reap of its own, no run of its own, no lock.
LEMMA Returned ==
  ASSUME Inv, NEW s \in Starter, Return(s)
  PROVE  /\ pc'[s] = "idle" /\ want'[s] = None /\ reaps'[s] = {} /\ mine'[s] = None
         /\ \A u \in Starter \ {s} :
              /\ pc'[u] = pc[u] /\ want'[u] = want[u] /\ found'[u] = found[u]
              /\ reaps'[u] = reaps[u] /\ mine'[u] = mine[u]
  BY DEF Return, Inv, TypeOK

\* What a commit of a call's reaps does to a row.
LEMMA ReapsApply ==
  ASSUME Inv, ReapsFit, NEW s \in Starter
  PROVE  /\ reaps[s] \in SUBSET Run
         /\ \A r \in Run : Reaped(reaps[s])[r] = IF r \in reaps[s] THEN "FAILED" ELSE status[r]
         /\ \A r \in reaps[s] : r \in cold \/ status[r] = "FAILED"
         /\ cold \subseteq ActiveRuns
  BY DEF Inv, TypeOK, Reaped, ReapsFit, ActiveRuns

\* The reaps of a call leave the jobs true to their rows, the runs just inserted
\* untouched, and the reaps of others abandoned or given up.
LEMMA ReapsHarmless ==
  ASSUME Inv, JobFits, MineFits, ReapsFit, NEW s \in Starter,
         status' = Reaped(reaps[s]), cold' = cold \ reaps[s], job' = job, seen' = seen
  PROVE  /\ JobFits'
         /\ \A u \in Starter : mine[u] # None =>
              status'[mine[u]] = "QUEUED" /\ job'[mine[u]] = "none" /\ mine[u] \notin cold'
         /\ \A u \in Starter : \A r \in reaps[u] : r \in cold' \/ status'[r] = "FAILED"
         /\ ActiveRuns' \subseteq ActiveRuns
<1>1. \A r \in Run : status'[r] = IF r \in reaps[s] THEN "FAILED" ELSE status[r]
  BY ReapsApply
<1>2. \A r \in reaps[s] : r \in Run /\ (r \in cold \/ status[r] = "FAILED")
  BY ReapsApply
<1>3. JobFits'
  BY <1>1, <1>2 DEF JobFits, Terminal
<1>4. ASSUME NEW u \in Starter, mine[u] # None
      PROVE  status'[mine[u]] = "QUEUED" /\ job'[mine[u]] = "none" /\ mine[u] \notin cold'
  BY <1>1, <1>2, <1>4 DEF MineFits, Inv, TypeOK
<1>5. ASSUME NEW u \in Starter, NEW r \in reaps[u] PROVE r \in cold' \/ status'[r] = "FAILED"
  <2>1. r \in Run BY DEF Inv, TypeOK
  <2> QED BY <1>1, <2>1 DEF ReapsFit
<1>6. ActiveRuns' \subseteq ActiveRuns
  BY <1>1 DEF ActiveRuns, Active
<1> QED BY <1>3, <1>4, <1>5, <1>6

\* Fewer active runs, at the same places, in nobody's way but where they were.
LEMMA FewerActive ==
  ASSUME LockExcludes, ActiveRuns' \subseteq ActiveRuns, conn' = conn, home' = home
  PROVE  LockExcludes'
  BY DEF LockExcludes

\* The step of a job: the table changes in its own row, which was active.
LEMMA JobThread ==
  ASSUME ThreadMode, Inv, ThreadInv, NEW r \in Run, UNCHANGED <<caller, conn, home>>,
         r \notin cold, cold' = cold, status[r] \in Active, job[r] # "none",
         \A q \in Run \ {r} : status'[q] = status[q] /\ job'[q] = job[q] /\ seen'[q] = seen[q],
         /\ job'[r] # "told"
         /\ job'[r] \in {"waiting", "loaded"} => status'[r] = "QUEUED"
         /\ job'[r] = "loaded" => seen'[r] = "QUEUED"
         /\ job'[r] = "pulling" => status'[r] = "RUNNING"
         /\ job'[r] = "done" => status'[r] \in Terminal
         /\ status'[r] # "NONE"
  PROVE  ThreadInv'
<1>1. ActiveRuns' \subseteq ActiveRuns
  BY DEF ActiveRuns
<1>2. JobFits'
  BY DEF ThreadInv, JobFits
<1>3. MineFits'
  <2>1. \A s \in Starter : mine[s] # r
    BY JobsAssumption DEF ThreadInv, MineFits
  <2>2. \A s \in Starter : mine[s] # None => mine[s] \in Run \ {r}
    BY <2>1 DEF Inv, TypeOK
  <2> QED BY <2>2 DEF ThreadInv, MineFits, caller
<1>4. ReapsFit'
  <2>1. \A s \in Starter : r \notin reaps[s]
    BY DEF ThreadInv, ReapsFit, Active
  <2>2. \A s \in Starter : reaps[s] \subseteq Run \ {r}
    BY <2>1 DEF Inv, TypeOK
  <2> QED BY <2>2 DEF ThreadInv, ReapsFit, caller
<1>5. GuardFits'
  BY <1>1 DEF ThreadInv, GuardFits, caller
<1>6. LockExcludes'
  BY <1>1, FewerActive DEF ThreadInv
<1> QED BY <1>2, <1>3, <1>4, <1>5, <1>6 DEF ThreadInv

\* In threads, with no phase longer than STALE_AFTER, a job works on the row its
\* own call inserted, and reapers meet only what nobody works on.
LEMMA StepThread == ThreadMode /\ Inv /\ ThreadInv /\ [Next]_vars => ThreadInv'
<1> SUFFICES ASSUME ThreadMode, Inv, ThreadInv, [Next]_vars PROVE ThreadInv' OBVIOUS
<1>0. JobFits /\ MineFits /\ ReapsFit /\ GuardFits /\ LockExcludes BY DEF ThreadInv
<1>a. CASE UNCHANGED vars
  <2>1. UNCHANGED <<status, conn, cold, home, lock, pc, want, found, reaps, refused, mine, job, at, seen>>
    BY <1>a DEF vars, table, caller, jobs
  <2>2. JobFits' /\ MineFits' BY <1>0, <2>1 DEF JobFits, MineFits
  <2>3. ReapsFit' /\ GuardFits' /\ LockExcludes'
    BY <1>0, <2>1 DEF ReapsFit, GuardFits, LockExcludes, ActiveRuns
  <2> QED BY <2>2, <2>3 DEF ThreadInv
<1>b. ASSUME NEW s \in Starter, Look(s) \/ Poll(s) PROVE ThreadInv'
  <2>1. /\ UNCHANGED <<status, conn, cold, home, want, mine, job, seen>>
        /\ pc' = [pc EXCEPT ![s] = "looked"]
        /\ pc[s] \in {"looking", "again", "idle"}
        /\ \A u \in Starter \ {s} : found'[u] = found[u] /\ reaps'[u] = reaps[u]
        /\ reaps'[s] \subseteq Stale
    BY <1>b DEF Look, Poll, table, jobs, Inv, TypeOK
  <2>2. \A u \in Starter : pc'[u] = IF u = s THEN "looked" ELSE pc[u]
    BY <2>1 DEF Inv, TypeOK
  <2>3. JobFits' BY <1>0, <2>1 DEF JobFits
  <2>4. MineFits' BY <1>0, <2>1, <2>2 DEF MineFits
  <2>5. ReapsFit' BY <1>0, <2>1 DEF ReapsFit, Stale
  <2>6. LockExcludes' BY <1>0, <2>1 DEF LockExcludes, ActiveRuns
  <2>7. GuardFits'
    <3>1. CASE Poll(s)
      <4>1. want[s] = None BY <3>1 DEF Poll, Inv, Callers
      <4> QED BY <1>0, <2>1, <2>2, <4>1 DEF GuardFits, ActiveRuns
    <3>2. CASE Look(s)
      <4>1. /\ found'[s] = (Guards(want[s]) \ Stale # {})
            /\ reaps'[s] = Guards(want[s]) \cap Stale
        BY <3>2 DEF Look, Inv, TypeOK
      <4>2. ASSUME ~found'[s], NEW r \in ActiveRuns, Conflict(conn[r], want[s])
            PROVE  r \in reaps'[s]
        <5>1. Guards(want[s]) \subseteq Stale BY <4>1, <4>2
        <5>2. Of(want[s]) \ Stale = {} BY <5>1 DEF Guards
        <5>3. Guards(want[s]) = IF want[s] = All THEN ActiveRuns ELSE Of(want[s]) \cup Of(All)
          BY <5>2 DEF Guards
        <5>4. r \in Guards(want[s]) BY <4>2, <5>3 DEF Conflict, Of
        <5> QED BY <4>1, <5>1, <5>4
      <4> QED BY <1>0, <2>1, <2>2, <4>2 DEF GuardFits, ActiveRuns
    <3> QED BY <1>b, <3>1, <3>2
  <2> QED BY <2>3, <2>4, <2>5, <2>6, <2>7 DEF ThreadInv
<1>c. ASSUME NEW s \in Starter, NEW c \in Scope, Ask(s, c) PROVE ThreadInv'
  <2>1. /\ UNCHANGED <<status, conn, cold, home, found, reaps, mine, job, seen>>
        /\ pc[s] = "idle"
        /\ \A u \in Starter : /\ pc'[u] = IF u = s THEN "looking" ELSE pc[u]
                              /\ u # s => want'[u] = want[u]
    BY <1>c DEF Ask, table, jobs, Inv, TypeOK
  <2>2. JobFits' BY <1>0, <2>1 DEF JobFits
  <2>3. MineFits' BY <1>0, <2>1 DEF MineFits
  <2>4. ReapsFit' /\ LockExcludes' BY <1>0, <2>1 DEF ReapsFit, LockExcludes, ActiveRuns
  <2>5. GuardFits' BY <1>0, <2>1 DEF GuardFits, ActiveRuns
  <2> QED BY <2>2, <2>3, <2>4, <2>5 DEF ThreadInv
<1>d. ASSUME NEW s \in Starter, HandBack(s) PROVE ThreadInv'
  <2>1. /\ status' = Reaped(reaps[s]) /\ cold' = cold \ reaps[s] /\ Return(s)
        /\ UNCHANGED <<conn, home, job, seen>>
    BY <1>d DEF HandBack, jobs
  <2>2. /\ JobFits'
        /\ \A u \in Starter : mine[u] # None =>
             status'[mine[u]] = "QUEUED" /\ job'[mine[u]] = "none" /\ mine[u] \notin cold'
        /\ \A u \in Starter : \A r \in reaps[u] : r \in cold' \/ status'[r] = "FAILED"
        /\ ActiveRuns' \subseteq ActiveRuns
    BY <1>0, <2>1, ReapsHarmless
  <2>3. pc[s] = "looked" BY <1>d DEF HandBack
  <2>4. MineFits' BY <1>0, <2>1, <2>2, <2>3, Returned DEF MineFits
  <2>5. ReapsFit' BY <2>1, <2>2, Returned DEF ReapsFit
  <2>6. GuardFits' BY <1>0, <2>1, <2>2, Returned DEF GuardFits
  <2>7. LockExcludes' BY <1>0, <2>1, <2>2, FewerActive
  <2> QED BY <2>2, <2>4, <2>5, <2>6, <2>7 DEF ThreadInv
<1>e. ASSUME NEW s \in Starter, Insert(s) PROVE ThreadInv'
  <2> DEFINE r == NewRun
  <2> HIDE DEF r
  <2>1. /\ r \in Run /\ status[r] = "NONE" /\ pc[s] = "looked" /\ ~found[s]
        /\ status' = [Reaped(reaps[s]) EXCEPT ![r] = "QUEUED"]
        /\ cold' = cold \ reaps[s]
        /\ conn' = [conn EXCEPT ![r] = want[s]]
        /\ home' = [home EXCEPT ![r] = HomeOf[s]]
        /\ mine' = [mine EXCEPT ![s] = r]
        /\ reaps' = [reaps EXCEPT ![s] = {}]
        /\ pc' = [pc EXCEPT ![s] = "dispatching"]
        /\ UNCHANGED <<want, found, job, seen>>
    BY <1>e DEF Insert, r, jobs
  <2>2. /\ want[s] # None /\ lock[HomeOf[s]] = s
        /\ \A u \in Starter \ {s} :
             pc[u] = "looked" /\ want[u] # None => HomeOf[u] # HomeOf[s]
    BY <2>1, JobsAssumption DEF Inv, TypeOK, Callers
  <2>3. /\ \A u \in Starter : /\ mine'[u] = IF u = s THEN r ELSE mine[u]
                              /\ reaps'[u] = IF u = s THEN {} ELSE reaps[u]
                              /\ pc'[u] = IF u = s THEN "dispatching" ELSE pc[u]
        /\ \A q \in Run : /\ conn'[q] = IF q = r THEN want[s] ELSE conn[q]
                          /\ home'[q] = IF q = r THEN HomeOf[s] ELSE home[q]
    BY <2>1 DEF Inv, TypeOK
  <2>4. /\ status'[r] = "QUEUED"
        /\ \A q \in Run \ {r} : status'[q] = IF q \in reaps[s] THEN "FAILED" ELSE status[q]
        /\ reaps[s] \subseteq Run
        /\ \A q \in reaps[s] : q \in cold \/ status[q] = "FAILED"
    BY <1>0, <2>1, ReapsApply DEF Reaped
  <2>5. r \notin cold /\ job[r] = "none" /\ \A u \in Starter : r \notin reaps[u] /\ mine[u] # r
    <3>1. r \notin cold BY <2>1 DEF Inv, TypeOK, Active
    <3>2. r # None BY <2>1, JobsAssumption
    <3>3. \A u \in Starter : r \notin reaps[u] /\ mine[u] # r
      BY <1>0, <2>1, <3>1, <3>2 DEF ReapsFit, MineFits
    <3> QED BY <1>0, <2>1, <3>1, <3>3 DEF JobFits
  <2>6. JobFits'
    <3> SUFFICES ASSUME NEW q \in Run
                 PROVE  /\ job'[q] # "told"
                        /\ job'[q] \in {"waiting", "loaded"} => status'[q] = "QUEUED"
                        /\ job'[q] = "loaded" => seen'[q] = "QUEUED"
                        /\ job'[q] = "pulling" => status'[q] = "RUNNING"
                        /\ job'[q] = "done" => status'[q] \in Terminal
                        /\ q \in cold' => job'[q] = "none"
                        /\ status'[q] = "NONE" => job'[q] = "none"
      BY DEF JobFits
    <3>1. CASE q = r BY <2>1, <2>4, <2>5, <3>1
    <3>2. CASE q # r BY <1>0, <2>1, <2>4, <3>2 DEF JobFits, Terminal
    <3> QED BY <3>1, <3>2
  <2>7. MineFits'
    <3>1. \A u \in Starter \ {s} : mine[u] # None => mine[u] \in Run \ {r} /\ mine[u] \notin reaps[s]
      BY <1>0, <2>4, <2>5 DEF MineFits, Inv, TypeOK
    <3>2. r # None BY <2>1, JobsAssumption
    <3> QED BY <1>0, <2>1, <2>3, <2>4, <2>5, <3>1, <3>2 DEF MineFits
  <2>8. ReapsFit'
    <3> SUFFICES ASSUME NEW u \in Starter, NEW q \in reaps'[u]
                 PROVE  q \in cold' \/ status'[q] = "FAILED"
      BY DEF ReapsFit
    <3>1. u # s /\ q \in reaps[u] BY <2>3
    <3>2. q \in Run \ {r} BY <2>5, <3>1 DEF Inv, TypeOK
    <3> QED BY <1>0, <2>1, <2>4, <3>1, <3>2 DEF ReapsFit
  <2>9. ASSUME NEW q \in ActiveRuns', q # r
        PROVE  q \in ActiveRuns /\ q \notin reaps[s]
    BY <2>4, <2>9 DEF ActiveRuns, Active
  <2>10. GuardFits'
    <3> SUFFICES ASSUME NEW u \in Starter, pc'[u] = "looked", want'[u] # None, ~found'[u],
                        NEW q \in ActiveRuns', home'[q] = HomeOf[u], Conflict(conn'[q], want'[u])
                 PROVE  q \in reaps'[u]
      BY DEF GuardFits
    <3>1. u # s /\ pc[u] = "looked" /\ want[u] # None /\ ~found[u] BY <2>1, <2>3
    <3>2. q \in Run BY DEF ActiveRuns
    <3>3. q # r BY <2>2, <2>3, <3>1, <3>2
    <3> QED BY <1>0, <2>1, <2>3, <2>9, <3>1, <3>2, <3>3 DEF GuardFits
  <2>11. LockExcludes'
    <3>1. ASSUME NEW q \in ActiveRuns', q # r, home'[q] = home'[r],
                 conn'[q] = conn'[r] \/ All \in {conn'[q], conn'[r]}
          PROVE  FALSE
      <4>1. q \in Run BY DEF ActiveRuns
      <4>2. home[q] = HomeOf[s] /\ Conflict(conn[q], want[s])
        BY <2>1, <2>3, <3>1, <4>1 DEF Conflict
      <4> QED BY <1>0, <2>1, <2>2, <2>9, <3>1, <4>2 DEF GuardFits
    <3>2. ASSUME NEW p \in ActiveRuns', NEW q \in ActiveRuns', p # r, q # r, home'[p] = home'[q],
                 conn'[p] = conn'[q] \/ All \in {conn'[p], conn'[q]}
          PROVE  p = q
      <4>1. p \in Run /\ q \in Run BY DEF ActiveRuns
      <4> QED BY <1>0, <2>3, <2>9, <3>2, <4>1 DEF LockExcludes
    <3> QED BY <3>1, <3>2 DEF LockExcludes
  <2> QED BY <2>6, <2>7, <2>8, <2>10, <2>11 DEF ThreadInv
<1>f. ASSUME NEW s \in Starter, InsertRefused(s) PROVE ThreadInv'
  <2>1. /\ UNCHANGED <<status, conn, cold, home, want, found, mine, job, seen>>
        /\ pc[s] = "looked"
        /\ \A u \in Starter : /\ pc'[u] = IF u = s THEN "again" ELSE pc[u]
                              /\ reaps'[u] = IF u = s THEN {} ELSE reaps[u]
    BY <1>f DEF InsertRefused, table, jobs, Inv, TypeOK
  <2>2. JobFits' BY <1>0, <2>1 DEF JobFits
  <2>3. MineFits' BY <1>0, <2>1 DEF MineFits
  <2>4. ReapsFit' /\ LockExcludes' BY <1>0, <2>1 DEF ReapsFit, LockExcludes, ActiveRuns
  <2>5. GuardFits' BY <1>0, <2>1 DEF GuardFits, ActiveRuns
  <2> QED BY <2>2, <2>3, <2>4, <2>5 DEF ThreadInv
<1>g. ASSUME NEW s \in Starter, Raise(s) PROVE ThreadInv'
  <2>1. UNCHANGED <<status, conn, cold, home, job, seen>> /\ Return(s) /\ pc[s] = "looked"
    BY <1>g DEF Raise, table, jobs
  <2>2. JobFits' BY <1>0, <2>1 DEF JobFits
  <2>3. MineFits' BY <1>0, <2>1, Returned DEF MineFits
  <2>4. ReapsFit' BY <1>0, <2>1, Returned DEF ReapsFit
  <2>5. LockExcludes' BY <1>0, <2>1 DEF LockExcludes, ActiveRuns
  <2>6. GuardFits' BY <1>0, <2>1, Returned DEF GuardFits, ActiveRuns
  <2> QED BY <2>2, <2>3, <2>4, <2>5, <2>6 DEF ThreadInv
<1>h. ASSUME NEW s \in Starter, Dispatch(s) PROVE ThreadInv'
  <2> DEFINE r == mine[s]
  <2>1. /\ UNCHANGED <<status, conn, cold, home, seen>> /\ Return(s) /\ pc[s] = "dispatching"
        /\ job' = [job EXCEPT ![r] = "waiting"]
    BY <1>h DEF Dispatch, table
  <2>2. /\ r \in Run /\ status[r] = "QUEUED" /\ r \notin cold
        /\ \A u \in Starter \ {s} : mine[u] # r
    BY <1>0, <2>1 DEF MineFits, Inv, TypeOK
  <2> HIDE DEF r
  <2>3. \A q \in Run : job'[q] = IF q = r THEN "waiting" ELSE job[q]
    BY <2>1, <2>2 DEF Inv, TypeOK
  <2>4. JobFits' BY <1>0, <2>1, <2>2, <2>3 DEF JobFits
  <2>5. MineFits'
    <3>1. \A u \in Starter \ {s} : mine[u] # None => mine[u] \in Run \ {r}
      BY <2>2 DEF Inv, TypeOK
    <3> QED BY <1>0, <2>1, <2>3, <3>1, Returned DEF MineFits
  <2>6. ReapsFit' BY <1>0, <2>1, Returned DEF ReapsFit
  <2>7. LockExcludes' BY <1>0, <2>1 DEF LockExcludes, ActiveRuns
  <2>8. GuardFits' BY <1>0, <2>1, Returned DEF GuardFits, ActiveRuns
  <2> QED BY <2>4, <2>5, <2>6, <2>7, <2>8 DEF ThreadInv
<1>i. ASSUME NEW r \in Run, NEW p \in Proc, Load(r, p) PROVE ThreadInv'
  <2>1. /\ job[r] = "waiting" /\ UNCHANGED <<table, caller>>
        /\ \A q \in Run : /\ job'[q] = IF q = r THEN "loaded" ELSE job[q]
                          /\ seen'[q] = IF q = r THEN status[r] ELSE seen[q]
    BY <1>i DEF Load, Inv, TypeOK
  <2>2. r \notin cold /\ status[r] = "QUEUED" BY <1>0, <2>1 DEF JobFits
  <2>3. status[r] \in Active /\ status[r] # "NONE" BY <2>2 DEF Active
  <2> QED BY <2>1, <2>2, <2>3, JobThread DEF table
<1>j. ASSUME NEW r \in Run, Begin(r) PROVE ThreadInv'
  <2>1. job[r] = "loaded" /\ status[r] = "QUEUED" /\ seen[r] = "QUEUED" /\ r \notin cold
    BY <1>0, <1>j DEF Begin, JobFits
  <2>2. /\ UNCHANGED <<caller, conn, home, seen>> /\ cold' = cold
        /\ \A q \in Run : /\ status'[q] = IF q = r THEN "RUNNING" ELSE status[q]
                          /\ job'[q] = IF q = r THEN "pulling" ELSE job[q]
    BY <1>j, <2>1 DEF Begin, Inv, TypeOK
  <2>3. status[r] \in Active BY <2>1 DEF Active
  <2> QED BY <2>1, <2>2, <2>3, JobThread
<1>k. ASSUME NEW r \in Run,
             \/ Break(r)
             \/ \E outcome \in Terminal : Finish(r, outcome)
      PROVE  ThreadInv'
  <2>1. job[r] \in {"loaded", "pulling"} BY <1>k DEF Break, Finish
  <2>2. status[r] \in Active /\ r \notin cold BY <1>0, <2>1 DEF JobFits, Active
  <2>3. /\ UNCHANGED <<caller, conn, home>> /\ cold' = cold
        /\ status'[r] \in Terminal
        /\ \A q \in Run : /\ q # r => status'[q] = status[q] /\ seen'[q] = seen[q]
                          /\ job'[q] = IF q = r THEN "done" ELSE job[q]
    <3>1. JobOver(r) /\ cold' = cold /\ \E outcome \in Terminal : status' = [status EXCEPT ![r] = outcome]
      <4>1. CASE Break(r)
        BY <2>2, <4>1 DEF Break, ActiveRuns, Terminal
      <4>2. ASSUME NEW outcome \in Terminal, Finish(r, outcome) 
            PROVE  JobOver(r) /\ cold' = cold /\ status' = [status EXCEPT ![r] = outcome]
        BY <2>2, <4>2 DEF Finish
      <4> QED BY <1>k, <4>1, <4>2
    <3>2. UNCHANGED <<caller, conn, home>>
      BY <3>1 DEF JobOver
    <3>3. \A q \in Run : /\ q # r => seen'[q] = seen[q]
                         /\ job'[q] = IF q = r THEN "done" ELSE job[q]
      BY <3>1 DEF JobOver, ThreadMode, Inv, TypeOK
    <3>4. status'[r] \in Terminal /\ \A q \in Run : q # r => status'[q] = status[q]
      BY <3>1 DEF Inv, TypeOK
    <3> QED BY <3>1, <3>2, <3>3, <3>4
  <2>4. status'[r] # "NONE" BY <2>3 DEF Terminal
  <2> QED BY <2>1, <2>2, <2>3, <2>4, JobThread
<1>l. ASSUME NEW r \in Run, Complete(r) \/ Stall(r) \/ Beat(r) PROVE FALSE
  BY <1>0, <1>l, JobsAssumption DEF Complete, Stall, Beat, JobFits, ThreadMode, Inv, TypeOK
<1>m. ASSUME NEW r \in Run, GoCold(r) PROVE ThreadInv'
  <2>1. /\ UNCHANGED <<status, conn, home, caller, jobs>> /\ cold' = cold \cup {r}
        /\ r \in ActiveRuns /\ ~Live(r) /\ \A s \in Starter : mine[s] # r
    BY <1>m DEF GoCold
  <2>2. job[r] = "none"
    <3>1. job[r] \notin {"waiting", "loaded", "pulling", "told"}
      BY <1>0, <2>1 DEF Live, ThreadMode, JobFits
    <3>2. job[r] # "done" BY <1>0, <2>1 DEF JobFits, ActiveRuns, Active, Terminal
    <3> QED BY <3>1, <3>2 DEF Inv, TypeOK
  <2>3. JobFits' BY <1>0, <2>1, <2>2 DEF JobFits, jobs
  <2>4. MineFits' BY <1>0, <2>1 DEF MineFits, caller, jobs
  <2>5. ReapsFit' BY <1>0, <2>1 DEF ReapsFit, caller
  <2>6. LockExcludes' /\ GuardFits'
    BY <1>0, <2>1 DEF LockExcludes, GuardFits, ActiveRuns, caller
  <2> QED BY <2>3, <2>4, <2>5, <2>6 DEF ThreadInv
<1>n. ASSUME NEW p \in Proc, Crash(p) PROVE ThreadInv'
  <2> DEFINE gone == {s \in Starter : HomeOf[s] = p}
  <2>1. /\ UNCHANGED <<status, conn, cold, home>>
        /\ \A s \in gone : pc'[s] = "idle" /\ want'[s] = None /\ reaps'[s] = {} /\ mine'[s] = None
        /\ \A s \in Starter \ gone :
             /\ pc'[s] = pc[s] /\ want'[s] = want[s] /\ found'[s] = found[s]
             /\ reaps'[s] = reaps[s] /\ mine'[s] = mine[s]
    BY <1>n DEF Crash, table, Inv, TypeOK
  <2>2. \A r \in Run : (job'[r] = job[r] /\ seen'[r] = seen[r]) \/ job'[r] = "none"
    BY <1>n DEF Crash, ThreadMode, Inv, TypeOK
  <2> HIDE DEF gone
  <2>3. JobFits' BY <1>0, <2>1, <2>2 DEF JobFits
  <2>4. MineFits'
    <3>1. \A s \in Starter : mine[s] # None => mine[s] \in Run BY DEF Inv, TypeOK
    <3>2. ASSUME NEW s \in Starter \ gone
          PROVE  /\ pc'[s] = "dispatching" <=> mine'[s] # None
                 /\ mine'[s] # None =>
                      /\ status'[mine'[s]] = "QUEUED" /\ job'[mine'[s]] = "none"
                      /\ mine'[s] \notin cold'
                      /\ \A u \in Starter : mine'[u] = mine'[s] => u = s
      BY <1>0, <2>1, <2>2, <3>1 DEF MineFits
    <3>3. \A s \in Starter \cap gone : pc'[s] # "dispatching" /\ mine'[s] = None
      BY <2>1
    <3> QED BY <3>2, <3>3 DEF MineFits
  <2>5. ReapsFit' BY <1>0, <2>1 DEF ReapsFit
  <2>6. LockExcludes' BY <1>0, <2>1 DEF LockExcludes, ActiveRuns
  <2>7. GuardFits' BY <1>0, <2>1 DEF GuardFits, ActiveRuns
  <2> QED BY <2>3, <2>4, <2>5, <2>6, <2>7 DEF ThreadInv
<1> QED BY <1>a, <1>b, <1>c, <1>d, <1>e, <1>f, <1>g, <1>h, <1>i, <1>j, <1>k, <1>l, <1>m, <1>n
        DEF Next, CallStep, JobStep

LEMMA ThreadInductive == ASSUME ThreadMode PROVE Spec => [](Inv /\ ThreadInv)
<1>1. Inv /\ ThreadInv /\ [Next]_vars => Inv' /\ ThreadInv'
  BY StepInv, StepThread
<1> QED BY <1>1, InitInv, InitThread, PTL DEF Spec

\* In threads, and with no phase longer than STALE_AFTER, runs whose process has
\* one _start_lock never overlap, company against all companies included.
THEOREM LockSafe == ASSUME ThreadMode PROVE Spec => []LockExcludes
  BY ThreadInductive, PTL DEF ThreadInv

\* Then two pulls never work on one connection either, whichever process has
\* started them: a pulling run is active, and the index lets one be.
THEOREM OnePullSafe == ASSUME ThreadMode PROVE Spec => []OnePull
<1>1. JobFits /\ OneActiveRow => OnePull
  BY DEF JobFits, OneActiveRow, OnePull, ActiveRuns, Active
<1>2. Inv /\ ThreadInv => JobFits BY DEF ThreadInv
<1> QED BY <1>1, <1>2, ThreadInductive, OneRow, PTL

\* And no verdict is rewritten: a reaper meets rows that are cold or have FAILED
\* already, and a job ends a row that is active.
THEOREM VerdictStands == ASSUME ThreadMode PROVE Spec => VerdictFinal
<1>1. Inv /\ ThreadInv /\ [Next]_vars =>
        [\A r \in Run : status[r] \in Terminal => status'[r] = status[r]]_vars
  <2> SUFFICES ASSUME Inv, ThreadInv, Next, NEW q \in Run, status[q] \in Terminal
               PROVE  status'[q] = status[q]
    OBVIOUS
  <2>0. JobFits /\ ReapsFit BY DEF ThreadInv
  <2>1. q \notin ActiveRuns /\ q \notin cold /\ status[q] # "NONE"
    BY DEF ActiveRuns, Active, Terminal, Inv, TypeOK
  <2>2. ASSUME NEW s \in Starter, status' = Reaped(reaps[s]) \/ Insert(s) PROVE status'[q] = status[q]
    <3>1. Reaped(reaps[s])[q] = status[q] BY <2>0, <2>1, ReapsApply
    <3>2. ASSUME Insert(s) PROVE status'[q] = Reaped(reaps[s])[q]
      <4>1. status[NewRun] = "NONE" /\ status' = [Reaped(reaps[s]) EXCEPT ![NewRun] = "QUEUED"]
        BY <3>2 DEF Insert
      <4>2. q # NewRun BY <2>1, <4>1
      <4> QED BY <4>1, <4>2 DEF Reaped
    <3> QED BY <2>2, <3>1, <3>2
  <2>3. ASSUME NEW r \in Run, Begin(r) \/ Break(r) \/ \E outcome \in Terminal : Finish(r, outcome)
        PROVE  status'[q] = status[q]
    <3>1. job[r] \in {"loaded", "pulling"} BY <2>3 DEF Begin, Break, Finish
    <3>2. r # q BY <2>0, <3>1 DEF JobFits, Terminal
    <3> QED BY <2>3, <3>2 DEF Begin, Break, Finish, Inv, TypeOK
  <2>4. ASSUME NEW s \in Starter,
               \/ Look(s) \/ InsertRefused(s) \/ Raise(s) \/ Dispatch(s) \/ Poll(s)
               \/ \E c \in Scope : Ask(s, c)
        PROVE  status' = status
    BY <2>4 DEF Look, InsertRefused, Raise, Dispatch, Poll, Ask, table
  <2>5. ASSUME NEW r \in Run,
               \/ \E p \in Proc : Load(r, p)
               \/ Complete(r) \/ GoCold(r) \/ Stall(r) \/ Beat(r)
        PROVE  status' = status
    BY <2>5 DEF Load, Complete, GoCold, Stall, Beat, table
  <2>6. ASSUME NEW p \in Proc, Crash(p) PROVE status' = status
    BY <2>6 DEF Crash, table
  <2> QED BY <2>2, <2>3, <2>4, <2>5, <2>6 DEF Next, CallStep, JobStep, HandBack
<1> QED BY <1>1, ThreadInductive, PTL DEF Spec, VerdictFinal
-----------------------------------------------------------------------------
(* In threads, the runs implement the abstract history.                    *)

\* The runs somebody answers for, by who they are: no step but a job's own, or the
\* end of a process, takes one away.
LEMMA AnsweredBy ==
  ASSUME ThreadMode, Inv, ThreadInv
  PROVE  /\ \A r \in Run : r \in Answered <=> \/ job[r] \in {"waiting", "loaded", "pulling"}
                                              \/ \E s \in Starter : mine[s] = r
         /\ Answered \subseteq ActiveRuns \ cold
<1>1. \A r \in Run : r \in Answered <=> \/ job[r] \in {"waiting", "loaded", "pulling"}
                                          \/ \E s \in Starter : mine[s] = r
  BY DEF Answered, Live, ThreadMode
<1>2. \A r \in Run : \A s \in Starter : mine[s] = r => status[r] = "QUEUED" /\ r \notin cold
  BY JobsAssumption DEF ThreadInv, MineFits
<1>3. \A r \in Run : job[r] \in {"waiting", "loaded", "pulling"} =>
                         r \notin cold /\ status[r] \in {"QUEUED", "RUNNING"}
  BY DEF ThreadInv, JobFits
<1> QED
  BY <1>1, <1>2, <1>3 DEF Answered, ActiveRuns, Active

\* A step that leaves the rows, the jobs and the runs of the calls alone is invisible.
LEMMA Unseen ==
  ASSUME UNCHANGED <<status, conn, job, mine>>
  PROVE  UNCHANGED Ledger!vars
  BY DEF Ledger!vars, Answered, Live

\* A call's reaps are abandoned runs, but for those that have failed already.
LEMMA ReapsGiveUp ==
  ASSUME ThreadMode, Inv, ThreadInv, NEW s \in Starter
  PROVE  /\ reaps[s] \cap ActiveRuns \in SUBSET Ledger!Abandoned
         /\ Reaped(reaps[s]) = Ledger!GivenUp(reaps[s] \cap ActiveRuns)
         /\ ActiveRuns \ (reaps[s] \cap ActiveRuns) = ActiveRuns \ reaps[s]
<1>1. \A r \in reaps[s] : r \in Run /\ (r \in cold \/ status[r] = "FAILED")
  BY ReapsApply DEF ThreadInv
<1>2. \A r \in reaps[s] : r \in ActiveRuns => r \in cold
  BY <1>1 DEF ActiveRuns, Active
<1>3. reaps[s] \cap ActiveRuns \in SUBSET Ledger!Abandoned
  <2>1. Ledger!Abandoned = ActiveRuns \ Answered
    BY DEF Ledger!Abandoned, Ledger!Ongoing, ActiveRuns, Active
  <2>2. Answered \subseteq ActiveRuns \ cold
    BY AnsweredBy
  <2> QED
    BY <1>2, <2>1, <2>2
<1>4. \A r \in reaps[s] : r \notin ActiveRuns => status[r] = "FAILED"
  BY <1>1, ReapsApply DEF ThreadInv
<1>5. Reaped(reaps[s]) = Ledger!GivenUp(reaps[s] \cap ActiveRuns)
  <2>1. \A r \in Run : (IF r \in reaps[s] THEN "FAILED" ELSE status[r])
                       = IF r \in reaps[s] \cap ActiveRuns THEN "FAILED" ELSE status[r]
    BY <1>4
  <2> QED
    BY <2>1 DEF Reaped, Ledger!GivenUp
<1> QED
  BY <1>3, <1>5

\* The steps of a call: it gives up, or opens a run in place of what it gives up.
LEMMA CallRefines ==
  ASSUME ThreadMode, Inv, ThreadInv, NEW s \in Starter, CallStep(s)
  PROVE  Ledger!Next \/ UNCHANGED Ledger!vars
<1> DEFINE given == reaps[s] \cap ActiveRuns
<1>1. CASE Look(s) \/ InsertRefused(s)
  BY <1>1, Unseen DEF Look, InsertRefused, table, jobs
<1>2. CASE HandBack(s)
  <2>1. status' = Reaped(reaps[s]) /\ UNCHANGED <<conn, jobs>> /\ Return(s) /\ pc[s] = "looked"
    BY <1>2 DEF HandBack
  <2>2. mine[s] = None
    BY <2>1 DEF ThreadInv, MineFits
  <2>3. \A u \in Starter : mine'[u] = mine[u]
    BY <2>1, <2>2, Returned
  <2>4. Answered' = Answered
    BY <2>1, <2>3 DEF Answered, Live, jobs
  <2>5. given \in SUBSET Ledger!Abandoned /\ status' = Ledger!GivenUp(given)
    BY <2>1, ReapsGiveUp
  <2>6. Ledger!GiveUp(given)
    BY <2>1, <2>4, <2>5 DEF Ledger!GiveUp
  <2> QED
    BY <2>5, <2>6 DEF Ledger!Next
<1>3. CASE Insert(s)
  <2> DEFINE r == NewRun
  <2> HIDE DEF r
  <2>1. /\ r \in Run /\ status[r] = "NONE" /\ pc[s] = "looked" /\ ~found[s]
        /\ ~Clash(want[s], reaps[s])
        /\ status' = [Reaped(reaps[s]) EXCEPT ![r] = "QUEUED"]
        /\ conn' = [conn EXCEPT ![r] = want[s]]
        /\ mine' = [mine EXCEPT ![s] = r]
        /\ UNCHANGED jobs
    BY <1>3 DEF Insert, r
  <2>2. want[s] \in Scope /\ mine[s] = None
    BY <2>1 DEF Inv, TypeOK, Callers, ThreadInv, MineFits
  <2>3. Answered' = Answered \cup {r}
    <3>1. \A u \in Starter : mine'[u] = IF u = s THEN r ELSE mine[u]
      BY <2>1 DEF Inv, TypeOK
    <3>2. \A q \in Run : mine[s] # q
      BY <2>2, JobsAssumption
    <3> QED
      BY <2>1, <3>1, <3>2 DEF Answered, Live, jobs
  <2>4. \A q \in Ledger!Ongoing \ given : conn[q] # want[s]
    BY <2>1 DEF Clash, Of, Ledger!Ongoing, ActiveRuns, Active
  <2>5. given \in SUBSET Ledger!Abandoned /\ status' = [Ledger!GivenUp(given) EXCEPT ![r] = "QUEUED"]
    BY <2>1, ReapsGiveUp
  <2>6. Ledger!Open(r, want[s], given)
    BY <2>1, <2>3, <2>4, <2>5 DEF Ledger!Open
  <2> QED
    BY <2>1, <2>2, <2>5, <2>6 DEF Ledger!Next
<1>4. CASE Raise(s)
  <2>1. mine[s] = None /\ Return(s) /\ UNCHANGED <<table, jobs>>
    BY <1>4 DEF Raise, ThreadInv, MineFits
  <2>2. \A u \in Starter : mine'[u] = mine[u]
    BY <2>1, Returned
  <2>3. Answered' = Answered
    BY <2>1, <2>2 DEF Answered, Live, jobs
  <2> QED
    BY <2>1, <2>3 DEF Ledger!vars, table
<1>5. CASE Dispatch(s)
  <2>1. /\ mine[s] # None /\ mine[s] \in Run /\ job[mine[s]] = "none"
        /\ \A u \in Starter : mine[u] = mine[s] => u = s
    BY <1>5 DEF Dispatch, ThreadInv, MineFits, Inv, TypeOK
  <2>2. /\ UNCHANGED table /\ Return(s)
        /\ job' = [job EXCEPT ![mine[s]] = "waiting"]
    BY <1>5 DEF Dispatch
  <2>3. \A u \in Starter \ {s} : mine'[u] = mine[u]
    BY <2>2, Returned
  <2>4. mine'[s] = None
    BY <2>2, Returned
  <2>5. \A q \in Run : q \in Answered' <=> q \in Answered
    <3>1. \A q \in Run \ {mine[s]} : job'[q] = job[q] /\ (\E u \in Starter : mine'[u] = q)
                                                    = (\E u \in Starter : mine[u] = q)
      BY <2>1, <2>2, <2>3, <2>4, JobsAssumption DEF Inv, TypeOK
    <3>2. job'[mine[s]] = "waiting"
      BY <2>1, <2>2 DEF Inv, TypeOK
    <3>3. mine[s] \in Answered /\ mine[s] \in Answered'
      BY <2>1, <3>2 DEF Answered, Live, ThreadMode
    <3>4. \A q \in Run \ {mine[s]} : q \in Answered' <=> q \in Answered
      BY <3>1 DEF Answered, Live
    <3> QED
      BY <3>3, <3>4
  <2>6. Answered' = Answered
    BY <2>5 DEF Answered
  <2> QED
    BY <2>2, <2>6 DEF Ledger!vars, table
<1> QED
  BY <1>1, <1>2, <1>3, <1>4, <1>5 DEF CallStep

\* The steps of a job: its run begins, and ends with a verdict.
LEMMA JobRefines ==
  ASSUME ThreadMode, Inv, ThreadInv, OneActiveRow, NEW r \in Run, JobStep(r)
  PROVE  Ledger!Next \/ UNCHANGED Ledger!vars
<1>b. \A q \in Run : q \in Answered <=> \/ job[q] \in {"waiting", "loaded", "pulling"}
                                        \/ \E s \in Starter : mine[s] = q
  BY AnsweredBy
<1>a. ASSUME UNCHANGED mine
      PROVE  \A q \in Run : q \in Answered' <=> \/ job'[q] \in {"waiting", "loaded", "pulling"}
                                                \/ \E s \in Starter : mine[s] = q
  BY <1>a DEF Answered, Live, ThreadMode
<1>m. job[r] # "none" => \A s \in Starter : mine[s] # r
  BY JobsAssumption DEF ThreadInv, MineFits
<1>1. ASSUME NEW p \in Proc, Load(r, p) PROVE UNCHANGED Ledger!vars
  <2>1. job' = [job EXCEPT ![r] = "loaded"] /\ job[r] = "waiting" /\ UNCHANGED <<table, mine>>
    BY <1>1 DEF Load, caller
  <2>2. \A q \in Run : q \in Answered' <=> q \in Answered
    BY <2>1, <1>a, <1>b DEF Inv, TypeOK
  <2>3. Answered' = Answered
    BY <2>2 DEF Answered
  <2> QED
    BY <2>1, <2>3 DEF Ledger!vars, table
<1>2. ASSUME Begin(r) PROVE Ledger!Next
  <2>1. /\ job[r] = "loaded" /\ status[r] = "QUEUED" /\ seen[r] = "QUEUED"
        /\ status' = [status EXCEPT ![r] = "RUNNING"]
        /\ job' = [job EXCEPT ![r] = "pulling"] /\ UNCHANGED <<conn, mine>>
    BY <1>2 DEF Begin, ThreadInv, JobFits, caller
  <2>2. \A q \in Run : q \in Answered' <=> q \in Answered
    BY <2>1, <1>a, <1>b DEF Inv, TypeOK
  <2>3. Answered' = Answered /\ r \in Answered
    BY <2>1, <2>2, <1>b DEF Answered
  <2>4. Ledger!Begin(r)
    BY <2>1, <2>3 DEF Ledger!Begin
  <2> QED
    BY <2>4 DEF Ledger!Next
<1>3. ASSUME Break(r) \/ \E outcome \in Terminal : Finish(r, outcome) PROVE Ledger!Next
  <2>1. job[r] = "pulling" /\ status[r] = "RUNNING"
    <3>1. job[r] = "loaded" => ~Clash(conn[r], {r})
      BY DEF ThreadInv, JobFits, OneActiveRow, Clash, Of, ActiveRuns, Active
    <3> QED
      BY <1>3, <3>1 DEF Break, Finish, ThreadInv, JobFits
  <2>2. PICK verdict \in {"OK", "FAILED"} :
          status' = [status EXCEPT ![r] = verdict] /\ JobOver(r)
    BY <1>3, <2>1 DEF Break, Finish, Terminal, ActiveRuns, Active
  <2>3. job' = [job EXCEPT ![r] = "done"] /\ UNCHANGED <<conn, mine>>
    BY <2>2 DEF JobOver, ThreadMode, caller
  <2>4. r \in Answered
    BY <2>1, <1>b
  <2>5. \A q \in Run : q \in Answered' <=> q \in Answered /\ q # r
    BY <2>1, <2>3, <1>a, <1>b, <1>m DEF Inv, TypeOK
  <2>6. Answered' = Answered \ {r}
    BY <2>5 DEF Answered
  <2>7. Ledger!End(r, verdict)
    BY <2>1, <2>2, <2>3, <2>4, <2>6 DEF Ledger!End
  <2> QED
    BY <2>7 DEF Ledger!Next
<1>4. ~Complete(r)
  BY DEF Complete, ThreadInv, JobFits
<1> QED
  BY <1>1, <1>2, <1>3, <1>4 DEF JobStep

\* ingestion/jobs.py in threads, no phase longer than STALE_AFTER: every step of the
\* callers, the reapers, the jobs and the status screen is a step of the abstract
\* history, a killed process included, or invisible to it.
THEOREM RefinesLedger == ASSUME ThreadMode PROVE Spec => IsRunLedger
<1>1. Init => Ledger!Init
  BY JobsAssumption DEF Init, Ledger!Init, Answered, Live
<1>2. Inv /\ ThreadInv /\ OneActiveRow /\ [Next]_vars => [Ledger!Next]_Ledger!vars
  <2> SUFFICES ASSUME Inv, ThreadInv, OneActiveRow, [Next]_vars
               PROVE  Ledger!Next \/ UNCHANGED Ledger!vars
    OBVIOUS
  <2>1. ASSUME NEW s \in Starter, Poll(s) \/ \E c \in Scope : Ask(s, c)
        PROVE  UNCHANGED Ledger!vars
    BY <2>1, Unseen DEF Poll, Ask, table, jobs
  <2>2. ASSUME NEW r \in Run, GoCold(r) \/ Stall(r) \/ Beat(r) PROVE UNCHANGED Ledger!vars
    BY <2>2, Unseen DEF GoCold, Stall, Beat, caller, jobs
  <2>3. ASSUME NEW p \in Proc, Crash(p) PROVE Ledger!Next
    <3>1. /\ UNCHANGED table
          /\ \A s \in Starter : mine'[s] = mine[s] \/ mine'[s] = None
          /\ \A r \in Run : job'[r] = job[r] \/ job'[r] = "none"
      BY <2>3 DEF Crash, ThreadMode, Inv, TypeOK
    <3>2. Answered' \subseteq Answered
      BY <3>1, JobsAssumption DEF Answered, Live, ThreadMode
    <3>3. Ledger!Die(Answered \ Answered')
      BY <3>1, <3>2 DEF Ledger!Die, table
    <3>4. Answered \ Answered' \in SUBSET Answered
      OBVIOUS
    <3> QED
      BY <3>3, <3>4 DEF Ledger!Next
  <2>4. CASE UNCHANGED vars
    BY <2>4, Unseen DEF vars, table, caller, jobs
  <2> QED
    BY <2>1, <2>2, <2>3, <2>4, CallRefines, JobRefines DEF Next
<1> QED
  BY <1>1, <1>2, ThreadInductive, OneRow, PTL DEF Spec, IsRunLedger, Ledger!Spec
=============================================================================
