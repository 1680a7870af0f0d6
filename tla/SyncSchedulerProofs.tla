------------------------- MODULE SyncSchedulerProofs -------------------------
(***************************************************************************)
(* What SyncScheduler promises, for any number of processes and             *)
(* organizations and any lease longer than a pass.                          *)
(*                                                                          *)
(* The argument: the process that acts on the lease holds it, and what is   *)
(* left of the lease is TTL minus the age of the `now` it was asked with.   *)
(* A pass is shorter than the lease, so something is left, so nobody else's *)
(* UPDATE matches.  One ticker at a time then makes each tick's snapshot of *)
(* starts safe to act on.                                                   *)
(***************************************************************************)
EXTENDS SyncScheduler, TLAPS

USE SchedulerAssumption, PassFitsLease

\* Every variable stays in its range: the lease row, the loops and the ages.
THEOREM TypeCorrect == Spec => []TypeOK
<1>1. Init => TypeOK
  BY DEF Init, TypeOK, Ages
<1>2. TypeOK /\ [Next]_vars => TypeOK'
  <2> SUFFICES ASSUME TypeOK, [Next]_vars PROVE TypeOK'
    OBVIOUS
  <2> USE DEF TypeOK, Ages
  <2>1. CASE Elapse
    BY <2>1 DEF Elapse, Older, Busy
  <2>2. ASSUME NEW p \in Proc, Ask(p) PROVE TypeOK'
    BY <2>2 DEF Ask, lease, runs
  <2>3. ASSUME NEW p \in Proc, Granted(p) PROVE TypeOK'
    BY <2>3 DEF Granted, LeaseLeft, runs
  <2>4. ASSUME NEW p \in Proc, Refused(p) PROVE TypeOK'
    BY <2>4 DEF Refused, Rest, lease, runs
  <2>5. ASSUME NEW p \in Proc, Release(p) PROVE TypeOK'
    BY <2>5 DEF Release, runs
  <2>6. ASSUME NEW p \in Proc, Read(p) PROVE TypeOK'
    BY <2>6 DEF Read, lease, runs
  <2>7. ASSUME NEW p \in Proc, TickDone(p) PROVE TypeOK'
    BY <2>7 DEF TickDone, Rest, lease, runs
  <2>8. ASSUME NEW p \in Proc, NEW o \in Org, StartSync(p, o) PROVE TypeOK'
    BY <2>8 DEF StartSync, lease
  <2>9. ASSUME NEW p \in Proc, NEW o \in Org, Skip(p, o) PROVE TypeOK'
    BY <2>9 DEF Skip, lease, runs
  <2>10. ASSUME NEW p \in Proc, PassFails(p) PROVE TypeOK'
    BY <2>10 DEF PassFails, Rest, lease, runs
  <2>11. ASSUME NEW p \in Proc, Stop(p) PROVE TypeOK'
    BY <2>11 DEF Stop, lease, runs
  <2>12. ASSUME NEW p \in Proc, Kill(p) PROVE TypeOK'
    BY <2>12 DEF Kill, lease, runs
  <2>13. ASSUME NEW o \in Org, ManualSync(o) PROVE TypeOK'
    BY <2>13 DEF ManualSync, lease, loop
  <2>14. ASSUME NEW o \in Org, RunEnds(o) PROVE TypeOK'
    BY <2>14 DEF RunEnds, lease, loop
  <2>15. CASE UNCHANGED vars
    BY <2>15 DEF vars, lease, loop, runs
  <2> QED
    BY <2>1, <2>2, <2>3, <2>4, <2>5, <2>6, <2>7, <2>8, <2>9, <2>10, <2>11,
       <2>12, <2>13, <2>14, <2>15 DEF Next, LoopStep
<1> QED
  BY <1>1, <1>2, PTL DEF Spec
-----------------------------------------------------------------------------
\* Whoever acts on the lease holds it, and has the rest of it in hand.
LeaseInv == \A p \in Proc : Leading(p) => holder = p /\ left = TTL - age[p]

\* The lease is exactly as old as the pass that acts on it.
LEMMA LeaseInductive == Spec => []LeaseInv
<1>1. Init => LeaseInv
  BY DEF Init, LeaseInv, Leading
<1>2. TypeOK /\ LeaseInv /\ [Next]_vars => LeaseInv'
  <2> SUFFICES ASSUME TypeOK, LeaseInv, [Next]_vars, NEW q \in Proc, Leading(q)'
               PROVE  (holder = q /\ left = TTL - age[q])'
    BY DEF LeaseInv
  <2> USE DEF LeaseInv, Leading, TypeOK
  <2>1. CASE Elapse
    <3>1. Leading(q) /\ age[q] < MaxPass /\ age'[q] = age[q] + 1
      BY <2>1 DEF Elapse, Busy
    <3> QED
      BY <2>1, <3>1 DEF Elapse
  <2>2. ASSUME NEW p \in Proc, Ask(p) PROVE (holder = q /\ left = TTL - age[q])'
    BY <2>2 DEF Ask, lease
  <2>3. ASSUME NEW p \in Proc, Granted(p)
        PROVE  (holder = q /\ left = TTL - age[q])'
    <3>1. CASE p = q
      BY <2>3, <3>1 DEF Granted, LeaseLeft
    <3>2. CASE p # q
      <4>1. holder = q /\ left = TTL - age[q]
        BY <2>3, <3>2 DEF Granted
      <4>2. left > 0 /\ holder # None /\ holder # p
        BY <4>1, <3>2
      <4> QED
        BY <2>3, <4>2 DEF Granted, FreeToTake
    <3> QED
      BY <3>1, <3>2
  <2>4. ASSUME NEW p \in Proc, Refused(p)
        PROVE  (holder = q /\ left = TTL - age[q])'
    BY <2>4 DEF Refused, Rest, lease
  <2>5. ASSUME NEW p \in Proc, Release(p)
        PROVE  (holder = q /\ left = TTL - age[q])'
    <3>1. p # q /\ Leading(q)
      BY <2>5 DEF Release
    <3> QED
      BY <2>5, <3>1 DEF Release, MayRelease
  <2>6. ASSUME NEW p \in Proc, Read(p) PROVE (holder = q /\ left = TTL - age[q])'
    BY <2>6 DEF Read, lease
  <2>7. ASSUME NEW p \in Proc, TickDone(p)
        PROVE  (holder = q /\ left = TTL - age[q])'
    BY <2>7 DEF TickDone, Rest, lease
  <2>8. ASSUME NEW p \in Proc, NEW o \in Org, StartSync(p, o) \/ Skip(p, o)
        PROVE  (holder = q /\ left = TTL - age[q])'
    BY <2>8 DEF StartSync, Skip, lease
  <2>9. ASSUME NEW p \in Proc, PassFails(p)
        PROVE  (holder = q /\ left = TTL - age[q])'
    BY <2>9 DEF PassFails, Rest, lease
  <2>10. ASSUME NEW p \in Proc, Stop(p) \/ Kill(p)
         PROVE  (holder = q /\ left = TTL - age[q])'
    BY <2>10 DEF Stop, Kill, lease
  <2>11. ASSUME NEW o \in Org, ManualSync(o) \/ RunEnds(o)
         PROVE  (holder = q /\ left = TTL - age[q])'
    BY <2>11 DEF ManualSync, RunEnds, lease, loop
  <2>12. CASE UNCHANGED vars
    BY <2>12 DEF vars, lease, loop
  <2> QED
    BY <2>1, <2>2, <2>3, <2>4, <2>5, <2>6, <2>7, <2>8, <2>9, <2>10, <2>11, <2>12
    DEF Next, LoopStep
<1> QED
  BY <1>1, <1>2, TypeCorrect, PTL DEF Spec

\* scheduler.tick: whoever ticks does so under a lease that is still running.
THEOREM LeaseSafe == Spec => []LeaseOutlivesTick
<1>1. TypeOK /\ LeaseInv => LeaseOutlivesTick
  BY DEF TypeOK, LeaseInv, LeaseOutlivesTick
<1> QED
  BY <1>1, TypeCorrect, LeaseInductive, PTL

\* leases.acquire: two processes never tick at once, whatever dies or stops.
THEOREM Exclusive == Spec => []OneTicker
<1>1. LeaseInv => OneTicker
  BY DEF LeaseInv, OneTicker
<1> QED
  BY <1>1, LeaseInductive, PTL
-----------------------------------------------------------------------------
\* The newest start is no older than the newest automatic one, and what a tick
\* has read of an organization it has yet to visit still bounds it.
StartsInv ==
  /\ \A o \in Org : started[o] <= auto[o]
  /\ \A p \in Proc : pc[p] = "ticking" => \A o \in todo[p] : snap[p][o] <= auto[o]

\* Ages grow together, so time keeps their order.
LEMMA OlderMonotone ==
  ASSUME NEW a \in Ages, NEW b \in Ages, NEW o \in Org, a[o] <= b[o]
  PROVE  Older(a)[o] <= Older(b)[o]
  BY DEF Ages, Older

\* The snapshot of starts a tick holds bounds every automatic start since.
LEMMA StartsInductive == Spec => []StartsInv
<1>1. Init => StartsInv
  BY DEF Init, StartsInv
<1>2. TypeOK /\ OneTicker /\ StartsInv /\ [Next]_vars => StartsInv'
  <2> SUFFICES ASSUME TypeOK, OneTicker, StartsInv, [Next]_vars PROVE StartsInv'
    OBVIOUS
  <2>1. CASE Elapse
    <3>1. \A o \in Org : started'[o] <= auto'[o]
      BY <2>1, OlderMonotone DEF Elapse, StartsInv, TypeOK
    <3>2. ASSUME NEW p \in Proc, pc'[p] = "ticking", NEW o \in todo'[p]
          PROVE  snap'[p][o] <= auto'[o]
      <4>1. o \in Org /\ snap[p][o] <= auto[o] /\ snap[p] \in Ages
        BY <2>1, <3>2 DEF Elapse, StartsInv, TypeOK
      <4>2. snap'[p] = Older(snap[p]) /\ auto' = Older(auto) /\ auto \in Ages
        BY <2>1 DEF Elapse, TypeOK
      <4> QED
        BY <4>1, <4>2, OlderMonotone
    <3> QED
      BY <3>1, <3>2 DEF StartsInv
  <2>2. ASSUME NEW p \in Proc, Ask(p) \/ Stop(p) PROVE StartsInv'
    BY <2>2 DEF Ask, Stop, runs, StartsInv, TypeOK
  <2>3. ASSUME NEW p \in Proc, Granted(p) \/ Release(p) PROVE StartsInv'
    BY <2>3 DEF Granted, Release, runs, StartsInv, TypeOK
  <2>4. ASSUME NEW p \in Proc, Refused(p) \/ TickDone(p) \/ PassFails(p) PROVE StartsInv'
    BY <2>4 DEF Refused, TickDone, PassFails, Rest, runs, StartsInv, TypeOK
  <2>5. ASSUME NEW p \in Proc, Kill(p) PROVE StartsInv'
    BY <2>5 DEF Kill, runs, StartsInv, TypeOK
  <2>6. ASSUME NEW p \in Proc, Read(p) PROVE StartsInv'
    BY <2>6 DEF Read, runs, StartsInv, TypeOK
  <2>7. ASSUME NEW p \in Proc, NEW o \in Org, StartSync(p, o) PROVE StartsInv'
    <3>1. \A i \in Org : started'[i] <= auto'[i]
      BY <2>7 DEF StartSync, StartsInv, TypeOK, Ages
    <3>2. ASSUME NEW q \in Proc, pc'[q] = "ticking", NEW i \in todo'[q]
          PROVE  snap'[q][i] <= auto'[i]
      <4>1. q = p
        BY <2>7, <3>2 DEF StartSync, OneTicker, Leading
      <4>2. i \in todo[p] /\ i # o /\ i \in Org
        BY <2>7, <3>2, <4>1 DEF StartSync, TypeOK
      <4> QED
        BY <2>7, <4>1, <4>2 DEF StartSync, StartsInv, TypeOK, Ages
    <3> QED
      BY <3>1, <3>2 DEF StartsInv
  <2>8. ASSUME NEW p \in Proc, NEW o \in Org, Skip(p, o) PROVE StartsInv'
    BY <2>8 DEF Skip, runs, StartsInv, TypeOK
  <2>9. ASSUME NEW o \in Org, ManualSync(o) PROVE StartsInv'
    BY <2>9 DEF ManualSync, loop, StartsInv, TypeOK, Ages
  <2>10. ASSUME NEW o \in Org, RunEnds(o) PROVE StartsInv'
    BY <2>10 DEF RunEnds, loop, StartsInv
  <2>11. CASE UNCHANGED vars
    BY <2>11 DEF vars, loop, runs, StartsInv
  <2> QED
    BY <2>1, <2>2, <2>3, <2>4, <2>5, <2>6, <2>7, <2>8, <2>9, <2>10, <2>11
    DEF Next, LoopStep
<1> QED
  BY <1>1, <1>2, TypeCorrect, Exclusive, PTL DEF Spec

\* scheduler.tick: an organization's automatic pulls keep its cadence, although
\* the tick that starts one decides by ages it read before.
THEOREM Cadence == Spec => CadenceKept
<1>1. TypeOK /\ StartsInv =>
        \A p \in Proc, o \in Org : StartSync(p, o) => auto[o] >= Hours[o]
  BY DEF TypeOK, StartsInv, StartSync, Due, Ages
<1> QED
  BY <1>1, TypeCorrect, StartsInductive, PTL DEF CadenceKept
=============================================================================
