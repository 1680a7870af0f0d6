------------------------- MODULE MessageQueueProofs -------------------------
(***************************************************************************)
(* What MessageQueue promises for any number of workers, producers,         *)
(* operators and messages.                                                  *)
(*                                                                          *)
(* The first part holds whatever crashes and stalls: types, and what a      *)
(* terminal status says of the past.  The second part is for the operation  *)
(* the claim query is written for - no process dies or is suspended, one    *)
(* operator - where the conditional UPDATE alone keeps workers apart.       *)
(***************************************************************************)
EXTENDS MessageQueue, FiniteSetTheorems, TLAPS

USE QueueAssumption

\* What a program point of a worker says about its locals.
LocalsInv ==
  \A w \in Worker :
    /\ InHand(w) => held[w] \in Msg
    /\ pc[w] = "selected" =>
         held[w] \in Msg /\ budget[w] > 0 /\ tries[w] < ClaimAttempts

TypeInv == TypeOK /\ LocalsInv

\* Rescheduling keeps the claim's order well formed.
LEMMA RescheduleType ==
  ASSUME TypeOK, NEW arrive \in SUBSET Msg, NEW leave \in SUBSET Msg,
         Reschedule(arrive, leave)
  PROVE  due' \in SUBSET Msg /\ ahead' \in [Msg -> SUBSET Msg]
  BY DEF TypeOK, Reschedule

\* The steps of the environment and of requests keep the types and leave the
\* locals of every worker alone.
LEMMA RequestType ==
  ASSUME TypeInv,
         \/ \E m \in Msg : BecomeDue(m) \/ GoCold(m) \/ Stall(m)
         \/ \E p \in Producer : \/ \E k \in Keys : EnqueueLook(p, k)
                                \/ \E m \in Msg : EnqueueInsert(p, m)
         \/ \E o \in Operator : \/ \E m \in Msg : RetryLook(o, m)
                                \/ RetryWrite(o)
  PROVE  TypeInv'
<1> USE DEF TypeInv, TypeOK, LocalsInv, InHand, row, proc, req, env
<1>1. ASSUME NEW m \in Msg, BecomeDue(m) PROVE TypeInv'
  <2>1. due' \in SUBSET Msg /\ ahead' \in [Msg -> SUBSET Msg]
    BY <1>1, RescheduleType DEF BecomeDue
  <2> QED
    BY <1>1, <2>1 DEF BecomeDue
<1>2. ASSUME NEW m \in Msg, GoCold(m) PROVE TypeInv'
  BY <1>2 DEF GoCold
<1>3. ASSUME NEW m \in Msg, Stall(m) PROVE TypeInv'
  BY <1>3 DEF Stall
<1>4. ASSUME NEW p \in Producer, NEW k \in Keys, EnqueueLook(p, k) PROVE TypeInv'
  BY <1>4 DEF EnqueueLook
<1>5. ASSUME NEW p \in Producer, NEW m \in Msg, EnqueueInsert(p, m) PROVE TypeInv'
  <2>1. due' \in SUBSET Msg /\ ahead' \in [Msg -> SUBSET Msg]
    BY <1>5, RescheduleType DEF EnqueueInsert
  <2> QED
    BY <1>5, <2>1 DEF EnqueueInsert, Active
<1>6. ASSUME NEW o \in Operator, NEW m \in Msg, RetryLook(o, m) PROVE TypeInv'
  BY <1>6 DEF RetryLook
<1>7. ASSUME NEW o \in Operator, RetryWrite(o) PROVE TypeInv'
  <2>1. asked[o] \in Msg
    BY <1>7 DEF RetryWrite
  <2>2. due' \in SUBSET Msg /\ ahead' \in [Msg -> SUBSET Msg]
    <3>1. {} \in SUBSET Msg /\ {asked[o]} \in SUBSET Msg
      BY <2>1
    <3>2. Reschedule({asked[o]}, {}) \/ UNCHANGED <<due, ahead>>
      BY <1>7 DEF RetryWrite
    <3> QED
      BY <3>1, <3>2, RescheduleType
  <2>3. status' \in [Msg -> {"NONE", "GONE"} \cup Active \cup Terminal]
    BY <1>7, <2>1 DEF RetryWrite, Active
  <2>4. attempts' \in [Msg -> Nat] /\ claimedBy' \in [Msg -> Worker \cup {None}]
    BY <1>7, <2>1 DEF RetryWrite
  <2> QED
    BY <1>7, <2>1, <2>2, <2>3, <2>4 DEF RetryWrite
<1> QED
  BY <1>1, <1>2, <1>3, <1>4, <1>5, <1>6, <1>7

\* So do the steps of a worker.
LEMMA WorkerType ==
  ASSUME TypeInv, NEW w \in Worker,
         WorkerStep(w) \/ Prune(w) \/ Heartbeat(w) \/ Crash(w) \/ Restart(w)
  PROVE  TypeInv'
<1> USE DEF TypeInv, TypeOK, LocalsInv, InHand, Goto, row, proc, req, env
<1>1. CASE ReapNothing(w)
  BY <1>1 DEF ReapNothing
<1>2. CASE ReapSelect(w)
  BY <1>2 DEF ReapSelect, Stale
<1>3. CASE ReapWrite(w)
  <2>1. due' \in SUBSET Msg /\ ahead' \in [Msg -> SUBSET Msg]
    <3>1. /\ Writable(w, backs[w]) \in SUBSET Msg
          /\ Writable(w, deads[w]) \in SUBSET Msg
      BY DEF Writable
    <3> QED
      BY <1>3, <3>1, RescheduleType DEF ReapWrite
  <2> QED
    BY <1>3, <2>1 DEF ReapWrite, Active, Terminal
<1>4. CASE Prune(w)
  BY <1>4 DEF Prune
<1>5. CASE EndPass(w)
  BY <1>5 DEF EndPass
<1>6. CASE ClaimSelect(w)
  BY <1>6 DEF ClaimSelect, Choose, Oldest
<1>7. CASE ClaimWin(w)
  <2>1. held[w] \in Msg /\ budget[w] > 0
    BY <1>7 DEF ClaimWin
  <2>2. due' \in SUBSET Msg /\ ahead' \in [Msg -> SUBSET Msg]
    BY <1>7, <2>1, RescheduleType DEF ClaimWin, TakeRow
  <2>3. attempts' \in [Msg -> Nat] /\ budget' \in [Worker -> 0..DrainLimit]
    BY <1>7, <2>1 DEF ClaimWin, TakeRow
  <2>4. tries' \in [Worker -> 0..ClaimAttempts]
    BY <1>7 DEF ClaimWin, TakeRow
  <2>5. TypeOK'
    BY <1>7, <2>1, <2>2, <2>3, <2>4 DEF ClaimWin, TakeRow, Active
  <2>6. LocalsInv'
    BY <1>7, <2>1 DEF ClaimWin, TakeRow
  <2> QED
    BY <2>5, <2>6
<1>8. CASE ClaimLose(w)
  BY <1>8 DEF ClaimLose
<1>9. CASE Heartbeat(w)
  BY <1>9 DEF Heartbeat
<1>10. CASE HandlerReturns(w)
  BY <1>10 DEF HandlerReturns
<1>11. CASE HandlerRaises(w)
  BY <1>11 DEF HandlerRaises
<1>12. CASE Complete(w)
  <2>1. due' \in SUBSET Msg /\ ahead' \in [Msg -> SUBSET Msg]
    <3>1. {} \in SUBSET Msg /\ {held[w]} \in SUBSET Msg
      BY <1>12 DEF Complete
    <3>2. Reschedule({}, {held[w]}) \/ UNCHANGED <<due, ahead>>
      BY <1>12 DEF Complete
    <3> QED
      BY <3>1, <3>2, RescheduleType
  <2> QED
    BY <1>12, <2>1 DEF Complete, PutDown, Terminal
<1>13. CASE FailRead(w)
  BY <1>13 DEF FailRead
<1>14. CASE FailWrite(w)
  <2>1. due' \in SUBSET Msg /\ ahead' \in [Msg -> SUBSET Msg]
    <3>1. {} \in SUBSET Msg /\ {held[w]} \in SUBSET Msg
      BY <1>14 DEF FailWrite
    <3>2. Reschedule({}, {held[w]}) \/ UNCHANGED <<due, ahead>>
      BY <1>14 DEF FailWrite
    <3> QED
      BY <3>1, <3>2, RescheduleType
  <2>2. held[w] \in Msg /\ claimedBy' \in [Msg -> Worker \cup {None}]
    BY <1>14 DEF FailWrite
  <2>3. status' \in [Msg -> {"NONE", "GONE"} \cup Active \cup Terminal]
    BY <1>14, <2>2 DEF FailWrite, Terminal, Active
  <2>4. LocalsInv'
    BY <1>14 DEF FailWrite, PutDown
  <2> QED
    BY <1>14, <2>1, <2>2, <2>3, <2>4 DEF FailWrite, PutDown
<1>15. CASE FailUnknown(w)
  <2>1. due' \in SUBSET Msg /\ ahead' \in [Msg -> SUBSET Msg]
    <3>1. {} \in SUBSET Msg /\ {held[w]} \in SUBSET Msg
      BY <1>15 DEF FailUnknown
    <3>2. Reschedule({}, {held[w]}) \/ UNCHANGED <<due, ahead>>
      BY <1>15 DEF FailUnknown
    <3> QED
      BY <3>1, <3>2, RescheduleType
  <2> QED
    BY <1>15, <2>1 DEF FailUnknown, PutDown, Terminal
<1>16. CASE Crash(w)
  BY <1>16 DEF Crash, Die
<1>17. CASE HandlerKills(w)
  BY <1>17 DEF HandlerKills, Die
<1>18. CASE Restart(w)
  BY <1>18 DEF Restart
<1> QED
  BY <1>1, <1>2, <1>3, <1>4, <1>5, <1>6, <1>7, <1>8, <1>9, <1>10, <1>11, <1>12,
     <1>13, <1>14, <1>15, <1>16, <1>17, <1>18 DEF WorkerStep

\* Types and locals are inductive together.
LEMMA TypeInductive == Spec => []TypeInv
<1>1. Init => TypeInv
  BY DEF Init, TypeInv, TypeOK, LocalsInv, InHand
<1>2. TypeInv /\ [Next]_vars => TypeInv'
  <2>1. TypeInv /\ UNCHANGED vars => TypeInv'
    BY DEF TypeInv, TypeOK, LocalsInv, InHand, vars, row, proc, req, env
  <2> QED
    BY <2>1, RequestType, WorkerType DEF Next
<1> QED
  BY <1>1, <1>2, PTL DEF Spec

\* The table and the locals of every process stay in their ranges: in
\* particular a pass of drain_once never takes more than its limit.
THEOREM TypeCorrect == Spec => []TypeOK
  BY TypeInductive, PTL DEF TypeInv
-----------------------------------------------------------------------------
\* A worker about to complete a message has seen its handler come back.
ReturnedInv ==
  /\ \A w \in Worker : pc[w] = "returned" => held[w] \in succeeded
  /\ DoneMeansRan

\* messaging/queue.complete: DONE is never written for work nobody finished,
\* whatever crashes, stalls, reapers and operators do to the row in between.
THEOREM DoneIsEarned == Spec => []DoneMeansRan
<1>1. Init => ReturnedInv
  BY DEF Init, ReturnedInv, DoneMeansRan
<1>2. TypeInv /\ ReturnedInv /\ [Next]_vars => ReturnedInv'
  <2> SUFFICES ASSUME TypeInv, ReturnedInv, [Next]_vars PROVE ReturnedInv'
    OBVIOUS
  <2> USE DEF TypeInv, TypeOK, ReturnedInv, DoneMeansRan, Goto, row, proc, req, env
  <2>1. ASSUME NEW m \in Msg, BecomeDue(m) \/ GoCold(m) \/ Stall(m) PROVE ReturnedInv'
    BY <2>1 DEF BecomeDue, GoCold, Stall
  <2>2. ASSUME NEW p \in Producer, NEW k \in Keys, EnqueueLook(p, k) PROVE ReturnedInv'
    BY <2>2 DEF EnqueueLook
  <2>3. ASSUME NEW p \in Producer, NEW m \in Msg, EnqueueInsert(p, m) PROVE ReturnedInv'
    BY <2>3 DEF EnqueueInsert
  <2>4. ASSUME NEW o \in Operator, NEW m \in Msg, RetryLook(o, m) PROVE ReturnedInv'
    BY <2>4 DEF RetryLook
  <2>5. ASSUME NEW o \in Operator, RetryWrite(o) PROVE ReturnedInv'
    BY <2>5 DEF RetryWrite
  <2>6. ASSUME NEW w \in Worker, ReapNothing(w) \/ ReapSelect(w) \/ EndPass(w)
                                  \/ Heartbeat(w) \/ Restart(w)
        PROVE  ReturnedInv'
    BY <2>6 DEF ReapNothing, ReapSelect, EndPass, Heartbeat, Restart
  <2>7. ASSUME NEW w \in Worker, ReapWrite(w) \/ Prune(w) PROVE ReturnedInv'
    BY <2>7 DEF ReapWrite, Prune
  <2>8. ASSUME NEW w \in Worker, ClaimSelect(w) \/ ClaimLose(w) PROVE ReturnedInv'
    BY <2>8 DEF ClaimSelect, Choose, ClaimLose
  <2>9. ASSUME NEW w \in Worker, ClaimWin(w) PROVE ReturnedInv'
    BY <2>9 DEF ClaimWin, TakeRow
  <2>10. ASSUME NEW w \in Worker, HandlerReturns(w) \/ HandlerRaises(w) PROVE ReturnedInv'
    BY <2>10 DEF HandlerReturns, HandlerRaises
  <2>11. ASSUME NEW w \in Worker, Complete(w) PROVE ReturnedInv'
    BY <2>11 DEF Complete, PutDown
  <2>12. ASSUME NEW w \in Worker, FailRead(w) \/ FailWrite(w) \/ FailUnknown(w)
         PROVE  ReturnedInv'
    BY <2>12 DEF FailRead, FailWrite, FailUnknown, PutDown
  <2>13. ASSUME NEW w \in Worker, Crash(w) \/ HandlerKills(w) PROVE ReturnedInv'
    BY <2>13 DEF Crash, HandlerKills, Die
  <2>14. CASE UNCHANGED vars
    BY <2>14 DEF vars
  <2> QED
    BY <2>1, <2>2, <2>3, <2>4, <2>5, <2>6, <2>7, <2>8, <2>9, <2>10, <2>11,
       <2>12, <2>13, <2>14 DEF Next, WorkerStep
<1> QED
  BY <1>1, <1>2, TypeInductive, PTL DEF Spec, ReturnedInv
-----------------------------------------------------------------------------
\* Until an operator resets a count, whoever is about to bury a message knows
\* that its attempts are spent - however long ago it looked.
SpentInv ==
  retries = 0 =>
    /\ \A o \in Operator : asked[o] = None
    /\ \A w \in Worker :
         /\ pc[w] = "failed" /\ Spent(seen[w]) => attempts[held[w]] >= MaxAttempts
         /\ \A m \in deads[w] : attempts[m] >= MaxAttempts
         /\ pc[w] = "unknown" => held[w] \in Unknown
    /\ \A m \in Msg :
         status[m] = "DEAD_LETTER" => attempts[m] >= MaxAttempts \/ m \in Unknown

\* queue.fail, queue.reap_stale: nothing is dead-lettered before its chances are
\* used, although both decide by a count they read in an earlier statement.
THEOREM GivenUpIsSpent == Spec => []GivenUpOnlyWhenSpent
<1>1. Init => SpentInv
  BY DEF Init, SpentInv, Spent
<1>2. TypeInv /\ SpentInv /\ [Next]_vars => SpentInv'
  <2> SUFFICES ASSUME TypeInv, [Next]_vars, SpentInv, retries' = 0 PROVE SpentInv'
    BY DEF SpentInv
  <2> USE DEF TypeInv, TypeOK, SpentInv, Goto, row, proc, req, env
  <2>0. retries = 0
    <3>1. retries \in Nat
      OBVIOUS
    <3>2. retries' = retries \/ \E o \in Operator, m \in Msg : RetryLook(o, m)
      BY DEF Next, WorkerStep, vars, BecomeDue, GoCold, Stall, EnqueueLook,
             EnqueueInsert, RetryWrite, ReapNothing, ReapSelect, ReapWrite, Prune,
             EndPass, ClaimSelect, Choose, ClaimWin, TakeRow, ClaimLose, Heartbeat,
             HandlerReturns, HandlerRaises, Complete, FailRead, FailWrite,
             FailUnknown, Crash, HandlerKills, Die, Restart
    <3> QED
      BY <3>1, <3>2 DEF RetryLook
  <2>1. ASSUME NEW m \in Msg, BecomeDue(m) \/ GoCold(m) \/ Stall(m) PROVE SpentInv'
    BY <2>0, <2>1 DEF BecomeDue, GoCold, Stall
  <2>2. ASSUME NEW p \in Producer, NEW k \in Keys, EnqueueLook(p, k) PROVE SpentInv'
    BY <2>0, <2>2 DEF EnqueueLook
  <2>3. ASSUME NEW p \in Producer, NEW m \in Msg, EnqueueInsert(p, m) PROVE SpentInv'
    BY <2>0, <2>3 DEF EnqueueInsert
  <2>4. ASSUME NEW o \in Operator, NEW m \in Msg, RetryLook(o, m) PROVE SpentInv'
    BY <2>0, <2>4 DEF RetryLook
  <2>5. ASSUME NEW o \in Operator, RetryWrite(o) PROVE SpentInv'
    BY <2>0, <2>5 DEF RetryWrite
  <2>6. ASSUME NEW w \in Worker, ReapNothing(w) \/ EndPass(w) \/ Heartbeat(w) \/ Restart(w)
        PROVE  SpentInv'
    BY <2>0, <2>6 DEF ReapNothing, EndPass, Heartbeat, Restart
  <2>7. ASSUME NEW w \in Worker, ReapSelect(w) PROVE SpentInv'
    BY <2>0, <2>7 DEF ReapSelect, Stale, Spent
  <2>8. ASSUME NEW w \in Worker, ReapWrite(w) \/ Prune(w) PROVE SpentInv'
    BY <2>0, <2>8 DEF ReapWrite, Writable, Prune
  <2>9. ASSUME NEW w \in Worker, ClaimSelect(w) \/ ClaimLose(w) PROVE SpentInv'
    BY <2>0, <2>9 DEF ClaimSelect, Choose, ClaimLose
  <2>10. ASSUME NEW w \in Worker, ClaimWin(w) PROVE SpentInv'
    <3>1. held[w] \in Msg
      BY <2>10 DEF ClaimWin, LocalsInv
    <3>2. \A m \in Msg : attempts'[m] >= attempts[m] /\ attempts'[m] \in Nat
      BY <2>10, <3>1 DEF ClaimWin, TakeRow
    <3>3. \A v \in Worker : pc[v] = "failed" => held[v] \in Msg
      BY DEF LocalsInv, InHand
    <3> QED
      BY <2>0, <2>10, <3>1, <3>2, <3>3 DEF ClaimWin, TakeRow, Spent
  <2>11. ASSUME NEW w \in Worker, HandlerReturns(w) \/ HandlerRaises(w) PROVE SpentInv'
    BY <2>0, <2>11 DEF HandlerReturns, HandlerRaises
  <2>12. ASSUME NEW w \in Worker, Complete(w) PROVE SpentInv'
    BY <2>0, <2>12 DEF Complete, PutDown
  <2>13. ASSUME NEW w \in Worker, FailRead(w) PROVE SpentInv'
    BY <2>0, <2>13 DEF FailRead, Spent, LocalsInv, InHand
  <2>14. ASSUME NEW w \in Worker, FailWrite(w) \/ FailUnknown(w) PROVE SpentInv'
    BY <2>0, <2>14 DEF FailWrite, FailUnknown, PutDown, Spent, LocalsInv, InHand
  <2>15. ASSUME NEW w \in Worker, Crash(w) \/ HandlerKills(w) PROVE SpentInv'
    BY <2>0, <2>15 DEF Crash, HandlerKills, Die
  <2>16. CASE UNCHANGED vars
    BY <2>0, <2>16 DEF vars
  <2> QED
    BY <2>1, <2>2, <2>3, <2>4, <2>5, <2>6, <2>7, <2>8, <2>9, <2>10, <2>11,
       <2>12, <2>13, <2>14, <2>15, <2>16 DEF Next, WorkerStep
<1>3. SpentInv => GivenUpOnlyWhenSpent
  BY DEF SpentInv, GivenUpOnlyWhenSpent
<1> QED
  BY <1>1, <1>2, <1>3, TypeInductive, PTL DEF Spec
-----------------------------------------------------------------------------
(* How often a message is handed out, whatever fails.                      *)

\* The workers that may yet bring the message back by a count they have read.
Bringers(m) ==
  {w \in Worker : \/ m \in backs[w]
                  \/ pc[w] = "failed" /\ held[w] = m /\ ~Spent(seen[w])}

Waiting(m) == IF status[m] = "PENDING" THEN 1 ELSE 0

\* Once the attempts are spent nobody reads a count that would bring the message
\* back, so the runs to come are those of the workers that have read one before.
OverrunInv ==
  /\ OverrunBounded
  /\ \A w \in Worker : pc[w] # "reaping" => backs[w] = {}
  /\ \A m \in Msg : status[m] = "NONE" => attempts[m] = 0
  /\ \A m \in Msg : status[m] # "GONE" /\ attempts[m] >= MaxAttempts =>
       attempts[m] + Cardinality(Bringers(m)) + Waiting(m) < MaxAttempts + Cardinality(Worker)

\* The workers that may bring a message back can be counted, and one that does
\* is one less.
LEMMA BringersFinite ==
  ASSUME IsFiniteSet(Worker), NEW m \in Msg
  PROVE  /\ IsFiniteSet(Bringers(m)) /\ Cardinality(Bringers(m)) \in Nat
         /\ Cardinality(Worker) \in Nat
         /\ \A S \in SUBSET Bringers(m) :
              /\ Cardinality(S) \in Nat /\ Cardinality(S) <= Cardinality(Bringers(m))
              /\ \A w \in Bringers(m) : w \notin S => Cardinality(S) < Cardinality(Bringers(m))
<1>1. Bringers(m) \subseteq Worker
  BY DEF Bringers
<1>2. IsFiniteSet(Bringers(m))
  BY <1>1, FS_Subset
<1>3. Cardinality(Bringers(m)) \in Nat /\ Cardinality(Worker) \in Nat
  BY <1>2, FS_CardinalityType
<1>4. ASSUME NEW S \in SUBSET Bringers(m)
      PROVE  /\ IsFiniteSet(S) /\ Cardinality(S) \in Nat
             /\ Cardinality(S) <= Cardinality(Bringers(m))
             /\ Cardinality(S) = Cardinality(Bringers(m)) => S = Bringers(m)
  BY <1>2, FS_Subset, FS_CardinalityType
<1>5. ASSUME NEW S \in SUBSET Bringers(m), NEW w \in Bringers(m), w \notin S
      PROVE  Cardinality(S) < Cardinality(Bringers(m))
  BY <1>3, <1>4, <1>5
<1> QED
  BY <1>2, <1>3, <1>4, <1>5

\* A step that counts no run: whoever was given up stays so, unless a worker uses
\* up its right to bring it back.
LEMMA NoNewRun ==
  ASSUME IsFiniteSet(Worker), TypeInv, OverrunInv, UNCHANGED attempts,
         \A w \in Worker : pc'[w] # "reaping" => backs'[w] = {},
         \A m \in Msg : /\ status'[m] = "NONE" => status[m] = "NONE"
                        /\ status[m] = "GONE" => status'[m] = "GONE",
         \A m \in Msg : status[m] # "GONE" /\ attempts[m] >= MaxAttempts =>
           /\ Bringers(m)' \subseteq Bringers(m)
           /\ status'[m] = "PENDING" =>
                status[m] = "PENDING" \/ \E w \in Bringers(m) : w \notin Bringers(m)'
  PROVE  OverrunInv'
<1> USE DEF TypeInv, TypeOK
<1>1. OverrunBounded'
  BY DEF OverrunInv, OverrunBounded
<1>2. ASSUME NEW m \in Msg, status'[m] # "GONE", attempts'[m] >= MaxAttempts
      PROVE  attempts'[m] + Cardinality(Bringers(m)') + Waiting(m)'
               < MaxAttempts + Cardinality(Worker)
  <2>1. status[m] # "GONE" /\ attempts[m] \in Nat /\ attempts[m] >= MaxAttempts /\ MaxAttempts \in Nat
    BY <1>2
  <2>2. attempts[m] + Cardinality(Bringers(m)) + Waiting(m) < MaxAttempts + Cardinality(Worker)
    BY <2>1 DEF OverrunInv
  <2>3. Bringers(m)' \in SUBSET Bringers(m)
    BY <2>1
  <2>4. /\ Cardinality(Bringers(m)) \in Nat /\ Cardinality(Worker) \in Nat
        /\ Cardinality(Bringers(m)') \in Nat /\ Cardinality(Bringers(m)') <= Cardinality(Bringers(m))
    BY <2>3, BringersFinite
  <2>5. Waiting(m) \in {0, 1} /\ Waiting(m)' \in {0, 1}
    BY DEF Waiting
  <2>6. CASE Waiting(m)' <= Waiting(m)
    BY ONLY <2>1, <2>2, <2>4, <2>5, <2>6, attempts' = attempts
  <2>7. CASE ~(Waiting(m)' <= Waiting(m))
    <3>1. status'[m] = "PENDING" /\ status[m] # "PENDING"
      BY <2>7 DEF Waiting
    <3>2. PICK w \in Bringers(m) : w \notin Bringers(m)'
      BY <2>1, <3>1
    <3>3. Cardinality(Bringers(m)') < Cardinality(Bringers(m))
      BY <2>3, <3>2, BringersFinite
    <3> QED
      BY ONLY <2>1, <2>2, <2>4, <2>5, <3>3, attempts' = attempts
  <2> QED
    BY <2>6, <2>7
<1>3. \A m \in Msg : status'[m] = "NONE" => attempts'[m] = 0
  BY DEF OverrunInv
<1> QED
  BY <1>1, <1>2, <1>3 DEF OverrunInv

\* The claim counts a run: the first beyond the limit is taken by a worker that is
\* not itself about to bring the message back, and later ones use up a wait.
LEMMA ClaimCounts ==
  ASSUME IsFiniteSet(Worker), TypeInv, OverrunInv, NEW w \in Worker, ClaimWin(w)
  PROVE  OverrunInv'
<1> USE DEF TypeInv, TypeOK
<1>1. PICK m \in Msg : /\ m = held[w] /\ status[m] = "PENDING"
                      /\ pc[w] = "selected" /\ backs[w] = {}
  BY DEF ClaimWin, LocalsInv, OverrunInv
<1>2. /\ status' = [status EXCEPT ![m] = "CLAIMED"]
      /\ attempts' = [attempts EXCEPT ![m] = @ + 1]
      /\ pc' = [pc EXCEPT ![w] = IF m \in Unknown THEN "unknown" ELSE "running"]
      /\ UNCHANGED <<held, seen, backs>>
  BY <1>1 DEF ClaimWin, TakeRow
<1>3. \A n \in Msg : Bringers(n)' = Bringers(n)
  BY <1>1, <1>2 DEF Bringers
<1>4. w \notin Bringers(m)
  BY <1>1 DEF Bringers
<1>5. /\ Cardinality(Bringers(m)) \in Nat /\ Cardinality(Worker) \in Nat
      /\ Cardinality(Bringers(m)) < Cardinality(Worker)
  <2>1. Bringers(m) \in SUBSET Worker
    BY DEF Bringers
  <2>2. /\ IsFiniteSet(Bringers(m)) /\ Cardinality(Bringers(m)) <= Cardinality(Worker)
        /\ Cardinality(Bringers(m)) = Cardinality(Worker) => Bringers(m) = Worker
    BY <2>1, FS_Subset
  <2>3. Cardinality(Bringers(m)) \in Nat /\ Cardinality(Worker) \in Nat
    BY <2>2, FS_CardinalityType
  <2> QED
    BY <1>4, <2>2, <2>3
<1>6. /\ attempts[m] \in Nat /\ attempts'[m] = attempts[m] + 1
      /\ Waiting(m) = 1 /\ Waiting(m)' = 0
      /\ MaxAttempts \in Nat
  BY <1>1, <1>2 DEF Waiting
<1>7. attempts[m] >= MaxAttempts =>
        attempts[m] + Cardinality(Bringers(m)) + 1 < MaxAttempts + Cardinality(Worker)
  BY <1>1, <1>6 DEF OverrunInv
<1>8. attempts'[m] + Cardinality(Bringers(m)) + 0 < MaxAttempts + Cardinality(Worker)
  BY ONLY <1>5, <1>6, <1>7
<1>9. \A n \in Msg : n # m => attempts'[n] = attempts[n] /\ status'[n] = status[n]
  BY <1>1, <1>2
<1>10. OverrunBounded'
  <2>1. attempts'[m] < MaxAttempts + Cardinality(Worker)
    BY ONLY <1>5, <1>6, <1>8
  <2> QED
    BY <1>1, <1>9, <2>1 DEF OverrunInv, OverrunBounded
<1>11. \A v \in Worker : pc'[v] # "reaping" => backs'[v] = {}
  BY <1>1, <1>2 DEF OverrunInv
<1>12. \A n \in Msg : status'[n] = "NONE" => attempts'[n] = 0
  BY <1>1, <1>2, <1>9 DEF OverrunInv
<1>13. ASSUME NEW n \in Msg, status'[n] # "GONE", attempts'[n] >= MaxAttempts
       PROVE  attempts'[n] + Cardinality(Bringers(n)') + Waiting(n)'
                < MaxAttempts + Cardinality(Worker)
  <2>1. CASE n = m
    BY <1>3, <1>6, <1>8, <2>1
  <2>2. CASE n # m
    BY <1>3, <1>9, <1>13, <2>2 DEF OverrunInv, Waiting
  <2> QED
    BY <2>1, <2>2
<1> QED
  BY <1>10, <1>11, <1>12, <1>13 DEF OverrunInv

\* An operator's retry begins the count anew.
LEMMA RetryCounts ==
  ASSUME IsFiniteSet(Worker), TypeInv, OverrunInv, NEW o \in Operator, RetryWrite(o)
  PROVE  OverrunInv'
<1> USE DEF TypeInv, TypeOK, proc
<1> DEFINE m == asked[o]
<1>1. m \in Msg
  BY DEF RetryWrite
<1>2. CASE m \in Rows
  <2>1. /\ status' = [status EXCEPT ![m] = "PENDING"]
        /\ attempts' = [attempts EXCEPT ![m] = 0]
        /\ UNCHANGED <<pc, held, seen, backs>>
    BY <1>2 DEF RetryWrite
  <2>2. \A n \in Msg : Bringers(n)' = Bringers(n)
    BY <2>1 DEF Bringers
  <2>3. attempts'[m] = 0 /\ 0 < MaxAttempts /\ MaxAttempts \in Nat
    BY <1>1, <2>1
  <2>4. \A n \in Msg : n # m => attempts'[n] = attempts[n] /\ status'[n] = status[n]
    BY <1>1, <2>1
  <2>5. Cardinality(Worker) \in Nat
    BY FS_CardinalityType
  <2>6. 0 < MaxAttempts + Cardinality(Worker)
    BY ONLY <2>3, <2>5
  <2>7. OverrunBounded'
    BY <2>3, <2>4, <2>6 DEF OverrunInv, OverrunBounded
  <2>8. \A n \in Msg : status'[n] # "GONE" /\ attempts'[n] >= MaxAttempts =>
          attempts'[n] + Cardinality(Bringers(n)') + Waiting(n)'
            < MaxAttempts + Cardinality(Worker)
    BY <2>2, <2>3, <2>4 DEF OverrunInv, Waiting
  <2>9. \A n \in Msg : status'[n] = "NONE" => attempts'[n] = 0
    BY <1>1, <2>1, <2>4 DEF OverrunInv
  <2> QED
    BY <2>1, <2>7, <2>8, <2>9 DEF OverrunInv
<1>3. CASE m \notin Rows
  <2>1. UNCHANGED <<status, attempts, pc, held, seen, backs>>
    BY <1>3 DEF RetryWrite
  <2>2. \A n \in Msg : Bringers(n)' = Bringers(n) /\ Waiting(n)' = Waiting(n)
    BY <2>1 DEF Bringers, Waiting
  <2> QED
    BY <2>1, <2>2 DEF OverrunInv, OverrunBounded
<1> QED
  BY <1>2, <1>3

\* No other step counts a run.
LEMMA OverrunStep ==
  ASSUME IsFiniteSet(Worker), TypeInv, OverrunInv, [Next]_vars
  PROVE  OverrunInv'
<1> USE DEF TypeInv, TypeOK, Goto, row, proc, req, env
<1>b. \A w \in Worker : pc[w] # "reaping" => backs[w] = {}
  BY DEF OverrunInv
<1>1. ASSUME NEW m \in Msg, BecomeDue(m) \/ GoCold(m) \/ Stall(m) PROVE OverrunInv'
  BY <1>1, <1>b, NoNewRun DEF BecomeDue, GoCold, Stall, Bringers
<1>2. ASSUME NEW p \in Producer, NEW k \in Keys, EnqueueLook(p, k) PROVE OverrunInv'
  BY <1>2, <1>b, NoNewRun DEF EnqueueLook, Bringers
<1>3. ASSUME NEW p \in Producer, NEW m \in Msg, EnqueueInsert(p, m) PROVE OverrunInv'
  <2>1. /\ status[m] = "NONE" /\ status' = [status EXCEPT ![m] = "PENDING"]
        /\ UNCHANGED <<attempts, pc, held, seen, backs>>
    BY <1>3 DEF EnqueueInsert
  <2>2. attempts[m] = 0 /\ ~(0 >= MaxAttempts)
    BY <2>1 DEF OverrunInv
  <2> QED
    BY <2>1, <2>2, <1>b, NoNewRun DEF Bringers
<1>4. ASSUME NEW o \in Operator, NEW m \in Msg, RetryLook(o, m) PROVE OverrunInv'
  BY <1>4, <1>b, NoNewRun DEF RetryLook, Bringers
<1>5. ASSUME NEW o \in Operator, RetryWrite(o) PROVE OverrunInv'
  BY <1>5, RetryCounts
<1>6. ASSUME NEW w \in Worker, \/ ReapNothing(w) \/ EndPass(w) \/ ClaimSelect(w) \/ ClaimLose(w)
                               \/ HandlerReturns(w) \/ HandlerRaises(w) \/ Heartbeat(w)
                               \/ Restart(w)
      PROVE  OverrunInv'
  <2>1. UNCHANGED <<status, attempts, backs, seen>>
    BY <1>6 DEF ReapNothing, EndPass, ClaimSelect, Choose, ClaimLose, HandlerReturns,
       HandlerRaises, Heartbeat, Restart
  <2>2. \A v \in Worker : /\ pc'[v] = "failed" => pc[v] = "failed" /\ held'[v] = held[v]
                          /\ pc'[v] # "reaping" => pc[v] # "reaping"
    BY <1>6 DEF ReapNothing, EndPass, ClaimSelect, Choose, ClaimLose, HandlerReturns,
       HandlerRaises, Heartbeat, Restart
  <2>3. \A m \in Msg : Bringers(m)' \subseteq Bringers(m)
    BY <2>1, <2>2 DEF Bringers
  <2> QED
    BY <2>1, <2>2, <2>3, <1>b, NoNewRun
<1>7. ASSUME NEW w \in Worker, ReapSelect(w) PROVE OverrunInv'
  <2>1. /\ pc' = [pc EXCEPT ![w] = "reaping"]
        /\ backs' = [backs EXCEPT ![w] = {m \in cold : ~Spent(attempts[m])}]
        /\ UNCHANGED <<status, attempts, held, seen>>
    BY <1>7 DEF ReapSelect, Stale
  <2>2. \A m \in Msg : attempts[m] >= MaxAttempts => Bringers(m)' \subseteq Bringers(m)
    BY <2>1 DEF Bringers, Spent
  <2>3. \A v \in Worker : pc'[v] # "reaping" => backs'[v] = {}
    BY <2>1, <1>b
  <2> QED
    BY <2>1, <2>2, <2>3, NoNewRun
<1>8. ASSUME NEW w \in Worker, ReapWrite(w) PROVE OverrunInv'
  <2>1. /\ pc[w] = "reaping" /\ pc'[w] \in {"top", "claiming"}
        /\ \A v \in Worker : v # w => pc'[v] = pc[v]
        /\ backs' = [backs EXCEPT ![w] = {}]
        /\ UNCHANGED <<attempts, held, seen>>
    BY <1>8 DEF ReapWrite
  <2>2. \A m \in Msg : Bringers(m)' = Bringers(m) \ {w}
    BY <2>1 DEF Bringers
  <2>3. \A m \in Msg : /\ status[m] \in {"NONE", "GONE"} <=> m \notin Rows
                       /\ status'[m] # status[m] => m \in Rows /\ status'[m] \in {"PENDING", "DEAD_LETTER"}
                       /\ status'[m] = "PENDING" => status[m] = "PENDING" \/ m \in backs[w]
    BY <1>8 DEF ReapWrite, Writable, Rows
  <2>4. \A m \in backs[w] : w \in Bringers(m)
    BY DEF Bringers
  <2>5. \A v \in Worker : pc'[v] # "reaping" => backs'[v] = {}
    BY <2>1, <1>b
  <2> QED
    BY <2>1, <2>2, <2>3, <2>4, <2>5, NoNewRun
<1>9. ASSUME NEW w \in Worker, Prune(w) PROVE OverrunInv'
  <2>1. /\ UNCHANGED <<attempts, pc, held, seen, backs>>
        /\ \A m \in Msg : status'[m] = status[m] \/ status'[m] = "GONE"
    BY <1>9 DEF Prune
  <2> QED
    BY <2>1, <1>b, NoNewRun DEF Bringers
<1>10. ASSUME NEW w \in Worker, ClaimWin(w) PROVE OverrunInv'
  BY <1>10, ClaimCounts
<1>11. ASSUME NEW w \in Worker, FailRead(w) PROVE OverrunInv'
  <2>1. /\ pc[w] = "failing" /\ pc' = [pc EXCEPT ![w] = "failed"]
        /\ seen' = [seen EXCEPT ![w] = IF held[w] \in Rows THEN attempts[held[w]] ELSE 0]
        /\ UNCHANGED <<status, attempts, held, backs>>
    BY <1>11 DEF FailRead
  <2>2. ASSUME NEW m \in Msg, status[m] # "GONE", attempts[m] >= MaxAttempts
        PROVE  Bringers(m)' \subseteq Bringers(m)
    <3>1. m \in Rows
      BY <2>2 DEF Rows, OverrunInv
    <3>2. held[w] = m => Spent(seen'[w])
      BY <2>1, <2>2, <3>1 DEF Spent
    <3> QED
      BY <2>1, <3>2 DEF Bringers
  <2>3. \A v \in Worker : pc'[v] # "reaping" => backs'[v] = {}
    BY <2>1, <1>b
  <2> QED
    BY <2>1, <2>2, <2>3, NoNewRun
<1>12. ASSUME NEW w \in Worker, Complete(w) \/ FailUnknown(w) PROVE OverrunInv'
  <2>1. /\ pc' = [pc EXCEPT ![w] = "claiming"] /\ held' = [held EXCEPT ![w] = None]
        /\ UNCHANGED <<attempts, seen, backs>> /\ pc[w] # "reaping"
    BY <1>12 DEF Complete, FailUnknown, PutDown
  <2>2. \A m \in Msg : \/ status'[m] = status[m]
                       \/ m \in Rows /\ status'[m] \in {"DONE", "DEAD_LETTER"}
    BY <1>12 DEF Complete, FailUnknown
  <2>3. \A m \in Msg : Bringers(m)' \subseteq Bringers(m)
    BY <2>1 DEF Bringers
  <2>4. \A v \in Worker : pc'[v] # "reaping" => backs'[v] = {}
    BY <2>1, <1>b
  <2> QED
    BY <2>1, <2>2, <2>3, <2>4, NoNewRun DEF Rows
<1>13. ASSUME NEW w \in Worker, FailWrite(w) PROVE OverrunInv'
  <2>1. /\ pc[w] = "failed" /\ pc' = [pc EXCEPT ![w] = "claiming"]
        /\ held' = [held EXCEPT ![w] = None] /\ seen' = [seen EXCEPT ![w] = 0]
        /\ UNCHANGED <<attempts, backs>> /\ held[w] \in Msg
    BY <1>13 DEF FailWrite, PutDown, LocalsInv, InHand
  <2>2. \A m \in Msg : \/ status'[m] = status[m]
                       \/ m \in Rows /\ status'[m] = "DEAD_LETTER"
                       \/ /\ m \in Rows /\ status'[m] = "PENDING"
                          /\ m = held[w] /\ ~Spent(seen[w])
    BY <1>13, <2>1 DEF FailWrite
  <2>3. \A m \in Msg : Bringers(m)' = Bringers(m) \ {w}
    BY <2>1, <1>b DEF Bringers
  <2>4. ~Spent(seen[w]) => w \in Bringers(held[w])
    BY <2>1 DEF Bringers
  <2>5. \A v \in Worker : pc'[v] # "reaping" => backs'[v] = {}
    BY <2>1, <1>b
  <2> QED
    BY <2>1, <2>2, <2>3, <2>4, <2>5, NoNewRun DEF Rows
<1>14. ASSUME NEW w \in Worker, Crash(w) \/ HandlerKills(w) PROVE OverrunInv'
  <2>1. /\ pc' = [pc EXCEPT ![w] = "down"] /\ backs' = [backs EXCEPT ![w] = {}]
        /\ held' = [held EXCEPT ![w] = None] /\ seen' = [seen EXCEPT ![w] = 0]
        /\ UNCHANGED <<status, attempts>>
    BY <1>14 DEF Crash, HandlerKills, Die
  <2>2. \A m \in Msg : Bringers(m)' \subseteq Bringers(m)
    BY <2>1 DEF Bringers
  <2>3. \A v \in Worker : pc'[v] # "reaping" => backs'[v] = {}
    BY <2>1, <1>b
  <2> QED
    BY <2>1, <2>2, <2>3, NoNewRun
<1>15. CASE UNCHANGED vars
  BY <1>15, <1>b, NoNewRun DEF vars, Bringers
<1> QED
  BY <1>1, <1>2, <1>3, <1>4, <1>5, <1>6, <1>7, <1>8, <1>9, <1>10, <1>11, <1>12,
     <1>13, <1>14, <1>15 DEF Next, WorkerStep

\* queue.reap_stale, queue.fail: whatever crashes and stalls, and however many
\* zombies and reapers write by counts they read before, a message is handed out
\* fewer than max_attempts plus the number of workers times between two retries.
THEOREM OverrunIsBounded == ASSUME IsFiniteSet(Worker) PROVE Spec => []OverrunBounded
<1>1. Init => OverrunInv
  <2> SUFFICES ASSUME Init PROVE OverrunInv
    OBVIOUS
  <2>1. Cardinality(Worker) \in Nat
    BY FS_CardinalityType
  <2>2. MaxAttempts \in Nat /\ 0 < MaxAttempts
    OBVIOUS
  <2>3. 0 < MaxAttempts + Cardinality(Worker) /\ ~(0 >= MaxAttempts)
    BY ONLY <2>1, <2>2
  <2> QED
    BY <2>3 DEF Init, OverrunInv, OverrunBounded
<1>2. TypeInv /\ OverrunInv /\ [Next]_vars => OverrunInv'
  BY OverrunStep
<1>3. OverrunInv => OverrunBounded
  BY DEF OverrunInv
<1> QED
  BY <1>1, <1>2, <1>3, TypeInductive, PTL DEF Spec
-----------------------------------------------------------------------------
(* The operation the claim query is written for.                           *)

\* Nobody dies or is suspended.
Faultless == MaxCrashes = 0 /\ MaxStalls = 0 /\ Poison = {}

\* One process runs the loop.
OneWorker == \A v, w \in Worker : v = w

\* Workers do not fail, or there is one, which may be killed, suspended and
\* replaced as often as you like; and one operator at most retries.
Orderly ==
  /\ Faultless \/ OneWorker
  /\ \A o1, o2 \in Operator : o1 = o2

\* Without faults nothing grows cold, for a claimed row is in somebody's hands, and
\* the reaper finds nothing.
QuietInv ==
  Faultless => /\ cold = {}
               /\ \A w \in Worker : pc[w] \notin {"down", "reaping"}
               /\ \A m \in Msg : status[m] = "CLAIMED" => InUse(m)

\* Who is inside a run owns the row, only claimed rows go cold, and a row being
\* retried is nobody's.
OwnedInv ==
  /\ ExclusiveRun
  /\ \A m \in cold : status[m] = "CLAIMED"
  /\ \A o \in Operator : asked[o] # None => status[asked[o]] \in Terminal \cup {"GONE"}

\* What a reaper has loaded is still what the table says.
ReapInv ==
  \A w \in Worker :
    /\ pc[w] # "reaping" => backs[w] = {} /\ deads[w] = {}
    /\ \A m \in backs[w] : status[m] = "CLAIMED" /\ attempts[m] < MaxAttempts
    /\ \A m \in deads[w] : status[m] = "CLAIMED" /\ attempts[m] >= MaxAttempts

\* A message that waits has an attempt left, and a failing worker knows its count.
ChancesInv ==
  /\ AttemptBudget
  /\ \A m \in Msg : status[m] = "PENDING" => attempts[m] < MaxAttempts
  /\ \A m \in Msg : status[m] = "NONE" => attempts[m] = 0
  /\ \A w \in Worker :
       InHand(w) => /\ pc[w] = "failed" => seen[w] = attempts[held[w]]
                    /\ pc[w] = "unknown" <=> held[w] \in Unknown

OrderlyInv == QuietInv /\ OwnedInv /\ ReapInv /\ ChancesInv

\* A worker that is reaping is the only one, and nobody is inside a run.
LEMMA ReaperAlone ==
  ASSUME Orderly, TypeInv, OrderlyInv, NEW w \in Worker, pc[w] = "reaping"
  PROVE  OneWorker /\ \A v \in Worker : v = w /\ ~InHand(v)
  BY DEF Orderly, OneWorker, OrderlyInv, QuietInv, InHand

\* A step that leaves the table and every hold alone, and no reaper's load.
LEMMA NothingMoves ==
  ASSUME OrderlyInv,
         UNCHANGED <<status, attempts, claimedBy, cold, asked>>,
         \A w \in Worker : /\ InHand(w)' => InHand(w) /\ held'[w] = held[w]
                           /\ InHand(w) => InHand(w)' /\ held'[w] = held[w]
                           /\ pc'[w] = "unknown" <=> pc[w] = "unknown"
                           /\ pc'[w] = "failed" => pc[w] = "failed" /\ seen'[w] = seen[w]
                           /\ pc'[w] \in {"down", "reaping"} => pc'[w] = pc[w]
                           /\ pc[w] = "reaping" => pc'[w] = "reaping"
                           /\ backs'[w] = backs[w] /\ deads'[w] = deads[w]
  PROVE  OrderlyInv'
<1>1. QuietInv'
  BY DEF OrderlyInv, QuietInv, InUse
<1>2. OwnedInv'
  BY DEF OrderlyInv, OwnedInv, ExclusiveRun
<1>3. ReapInv'
  BY DEF OrderlyInv, ReapInv
<1>4. ChancesInv'
  BY DEF OrderlyInv, ChancesInv, AttemptBudget
<1> QED
  BY <1>1, <1>2, <1>3, <1>4 DEF OrderlyInv

\* The environment and the requests.
LEMMA OrderlyRequests ==
  ASSUME Orderly, TypeInv, OrderlyInv,
         \/ \E m \in Msg : BecomeDue(m) \/ GoCold(m) \/ Stall(m)
         \/ \E p \in Producer : \/ \E k \in Keys : EnqueueLook(p, k)
                                \/ \E m \in Msg : EnqueueInsert(p, m)
         \/ \E o \in Operator : \/ \E m \in Msg : RetryLook(o, m)
                                \/ RetryWrite(o)
  PROVE  OrderlyInv'
<1> USE DEF TypeInv, TypeOK, row, proc, req, env
<1>q. QuietInv
  BY DEF OrderlyInv
<1>c. \A w \in Worker : InHand(w) =>
        held[w] \in Msg /\ status[held[w]] = "CLAIMED" /\ claimedBy[held[w]] = w
  BY DEF OrderlyInv, OwnedInv, ExclusiveRun, LocalsInv
<1>d. /\ \A m \in cold : status[m] = "CLAIMED"
      /\ \A o \in Operator : asked[o] # None => status[asked[o]] \in Terminal \cup {"GONE"}
  BY DEF OrderlyInv, OwnedInv
<1>e. ReapInv /\ ChancesInv
  BY DEF OrderlyInv
<1>1. ASSUME NEW m \in Msg, BecomeDue(m) PROVE OrderlyInv'
  BY <1>1, NothingMoves DEF BecomeDue, InHand
<1>2. ASSUME NEW m \in Msg, GoCold(m) \/ Stall(m) PROVE OrderlyInv'
  <2>1. status[m] = "CLAIMED" /\ cold' = cold \cup {m}
    BY <1>2 DEF GoCold, Stall
  <2>2. UNCHANGED <<status, attempts, claimedBy, asked, pc, held, seen, backs, deads>>
    BY <1>2 DEF GoCold, Stall
  <2>3. ~Faultless
    <3>1. Faultless => InUse(m) /\ MaxStalls = 0
      BY <1>q, <2>1 DEF QuietInv, Faultless
    <3> QED
      BY <1>2, <3>1 DEF GoCold, Stall
  <2>4. QuietInv'
    BY <2>3 DEF QuietInv
  <2>5. OwnedInv'
    BY <2>1, <2>2, <1>c, <1>d DEF OwnedInv, ExclusiveRun, InHand
  <2>6. ReapInv' /\ ChancesInv'
    BY <2>2, <1>e DEF ReapInv, ChancesInv, AttemptBudget, InHand
  <2> QED
    BY <2>4, <2>5, <2>6 DEF OrderlyInv
<1>3. ASSUME NEW p \in Producer, NEW k \in Keys, EnqueueLook(p, k) PROVE OrderlyInv'
  BY <1>3, NothingMoves DEF EnqueueLook, InHand
<1>4. ASSUME NEW p \in Producer, NEW m \in Msg, EnqueueInsert(p, m) PROVE OrderlyInv'
  <2>1. /\ status[m] = "NONE" /\ status' = [status EXCEPT ![m] = "PENDING"]
        /\ UNCHANGED <<attempts, claimedBy, cold, asked, proc>>
    BY <1>4 DEF EnqueueInsert
  <2>2. QuietInv'
    BY <2>1, <1>q DEF QuietInv, InUse, InHand
  <2>3. OwnedInv'
    BY <2>1, <1>c, <1>d DEF OwnedInv, ExclusiveRun, InHand, Terminal
  <2>4. ReapInv'
    BY <2>1, <1>e DEF ReapInv
  <2>5. ChancesInv'
    BY <2>1, <1>e DEF ChancesInv, AttemptBudget, InHand
  <2> QED
    BY <2>2, <2>3, <2>4, <2>5 DEF OrderlyInv
<1>5. ASSUME NEW o \in Operator, NEW m \in Msg, RetryLook(o, m) PROVE OrderlyInv'
  <2>1. QuietInv'
    BY <1>5, <1>q DEF RetryLook, QuietInv, InUse, InHand
  <2>2. OwnedInv'
    BY <1>5, <1>c, <1>d DEF RetryLook, OwnedInv, ExclusiveRun, InHand
  <2>3. ReapInv' /\ ChancesInv'
    BY <1>5, <1>e DEF RetryLook, ReapInv, ChancesInv, AttemptBudget, InHand
  <2> QED
    BY <2>1, <2>2, <2>3 DEF OrderlyInv
<1>6. ASSUME NEW o \in Operator, RetryWrite(o) PROVE OrderlyInv'
  <2>1. asked[o] \in Msg /\ status[asked[o]] \in Terminal \cup {"GONE"}
    BY <1>6, <1>d DEF RetryWrite
  <2>2. /\ \A q \in Operator : asked'[q] = None
        /\ UNCHANGED <<pc, held, seen, backs, deads>> /\ cold' = cold \ {asked[o]}
        /\ \A m \in Msg \ {asked[o]} : /\ status'[m] = status[m] /\ attempts'[m] = attempts[m]
                                       /\ claimedBy'[m] = claimedBy[m]
    BY <1>6, <2>1 DEF RetryWrite, Orderly
  <2>3. \/ /\ status'[asked[o]] = "PENDING" /\ attempts'[asked[o]] = 0
        \/ /\ status'[asked[o]] = status[asked[o]] /\ attempts'[asked[o]] = attempts[asked[o]]
    BY <1>6, <2>1 DEF RetryWrite
  <2>4. QuietInv'
    BY <1>q, <2>1, <2>2, <2>3 DEF QuietInv, InUse, InHand, Terminal
  <2>5. \A w \in Worker : InHand(w) => held[w] # asked[o]
    BY <1>c, <2>1 DEF Terminal
  <2>6. OwnedInv'
    BY <1>c, <1>d, <2>1, <2>2, <2>5 DEF OwnedInv, ExclusiveRun, InHand
  <2>7. ReapInv'
    BY <1>e, <2>1, <2>2 DEF ReapInv, Terminal
  <2>8. ChancesInv'
    BY <1>e, <1>c, <2>1, <2>2, <2>3, <2>5 DEF ChancesInv, AttemptBudget, InHand, Terminal
  <2> QED
    BY <2>4, <2>6, <2>7, <2>8 DEF OrderlyInv
<1> QED
  BY <1>1, <1>2, <1>3, <1>4, <1>5, <1>6

\* The worker's loop, and its end.
LEMMA OrderlyWorker ==
  ASSUME Orderly, TypeInv, OrderlyInv, NEW w \in Worker,
         WorkerStep(w) \/ Prune(w) \/ Heartbeat(w) \/ Crash(w) \/ Restart(w)
  PROVE  OrderlyInv'
<1> USE DEF TypeInv, TypeOK, Goto, row, proc, req, env
<1>q. QuietInv
  BY DEF OrderlyInv
<1>c. \A v \in Worker : InHand(v) =>
        held[v] \in Msg /\ held[v] \in Rows /\ status[held[v]] = "CLAIMED" /\ claimedBy[held[v]] = v
  BY DEF OrderlyInv, OwnedInv, ExclusiveRun, LocalsInv, Rows
<1>d. /\ \A m \in cold : status[m] = "CLAIMED"
      /\ \A o \in Operator : asked[o] # None => status[asked[o]] \in Terminal \cup {"GONE"}
  BY DEF OrderlyInv, OwnedInv
<1>e. ReapInv /\ ChancesInv
  BY DEF OrderlyInv
<1>r. pc[w] # "reaping" => \A v \in Worker : backs[v] = {} /\ deads[v] = {}
  <2> SUFFICES ASSUME pc[w] # "reaping", NEW v \in Worker PROVE backs[v] = {} /\ deads[v] = {}
    OBVIOUS
  <2>1. pc[v] # "reaping"
    BY ReaperAlone
  <2> QED
    BY <2>1, <1>e DEF ReapInv
<1>1. CASE ReapNothing(w) \/ EndPass(w) \/ ClaimSelect(w) \/ ClaimLose(w)
  <2>1. \A v \in Worker : InHand(v) => v # w
    BY <1>1 DEF ReapNothing, EndPass, ClaimSelect, Choose, ClaimLose, InHand
  <2>2. /\ \A v \in Worker : v # w => pc'[v] = pc[v] /\ held'[v] = held[v]
        /\ pc'[w] \in {"claiming", "top", "selected"} /\ pc[w] \in {"claiming", "top", "selected"}
    BY <1>1 DEF ReapNothing, EndPass, ClaimSelect, Choose, ClaimLose
  <2>3. UNCHANGED <<status, attempts, claimedBy, cold, asked, seen, backs, deads>>
    BY <1>1 DEF ReapNothing, EndPass, ClaimSelect, Choose, ClaimLose
  <2> QED
    BY <2>1, <2>2, <2>3, NothingMoves DEF InHand
<1>2. CASE ReapSelect(w)
  <2>1. /\ pc[w] = "top" /\ pc' = [pc EXCEPT ![w] = "reaping"]
        /\ deads' = [deads EXCEPT ![w] = {m \in cold : Spent(attempts[m])}]
        /\ backs' = [backs EXCEPT ![w] = {m \in cold : ~Spent(attempts[m])}]
        /\ UNCHANGED <<status, attempts, claimedBy, cold, held, seen, asked>>
    BY <1>2 DEF ReapSelect, Stale
  <2>2. QuietInv'
    BY <1>2, <1>q DEF ReapSelect, Stale, QuietInv
  <2>3. \A v \in Worker : InHand(v)' <=> InHand(v)
    BY <2>1 DEF InHand
  <2>4. OwnedInv'
    BY <2>1, <2>3, <1>c, <1>d DEF OwnedInv, ExclusiveRun
  <2>5. ReapInv'
    BY <2>1, <1>d, <1>e DEF ReapInv, Spent
  <2>6. ChancesInv'
    BY <2>1, <2>3, <1>e DEF ChancesInv, AttemptBudget, InHand
  <2> QED
    BY <2>2, <2>4, <2>5, <2>6 DEF OrderlyInv
<1>3. CASE ReapWrite(w)
  <2>0. pc[w] = "reaping" /\ OneWorker /\ \A v \in Worker : v = w /\ ~InHand(v)
    BY <1>3, ReaperAlone DEF ReapWrite
  <2>1. /\ \A m \in backs[w] : status[m] = "CLAIMED" /\ attempts[m] < MaxAttempts
        /\ \A m \in deads[w] : status[m] = "CLAIMED" /\ attempts[m] >= MaxAttempts
    BY <1>e DEF ReapInv
  <2>2. Writable(w, backs[w]) = backs[w] /\ Writable(w, deads[w]) = deads[w]
    BY <2>1 DEF Writable, Rows
  <2>3. /\ pc'[w] \in {"top", "claiming"}
        /\ status' = [m \in Msg |-> IF m \in deads[w] THEN "DEAD_LETTER"
                                    ELSE IF m \in backs[w] THEN "PENDING" ELSE status[m]]
        /\ cold' = cold \ (backs[w] \cup deads[w])
        /\ backs'[w] = {} /\ deads'[w] = {}
        /\ UNCHANGED <<attempts, asked>>
    BY <1>3, <2>2 DEF ReapWrite
  <2>4. QuietInv'
    BY <2>0, <1>q DEF QuietInv
  <2>5. OwnedInv'
    BY <2>0, <2>1, <2>3, <1>d DEF OwnedInv, ExclusiveRun, InHand, Terminal
  <2>6. ReapInv'
    BY <2>0, <2>3 DEF ReapInv
  <2>7. ChancesInv'
    BY <2>0, <2>1, <2>3, <1>e DEF ChancesInv, AttemptBudget, InHand
  <2> QED
    BY <2>4, <2>5, <2>6, <2>7 DEF OrderlyInv
<1>4. CASE Prune(w)
  <2>1. PICK old \in SUBSET {m \in Msg : status[m] \in Terminal} :
          status' = [m \in Msg |-> IF m \in old THEN "GONE" ELSE status[m]]
    BY <1>4 DEF Prune, Terminal
  <2>2. pc[w] # "reaping" /\ UNCHANGED <<attempts, claimedBy, cold, asked, pc, held, seen, backs, deads>>
    BY <1>4 DEF Prune
  <2>3. QuietInv'
    BY <2>1, <2>2, <1>q DEF QuietInv, InUse, InHand, Terminal
  <2>4. OwnedInv'
    BY <2>1, <2>2, <1>c, <1>d DEF OwnedInv, ExclusiveRun, InHand, Terminal
  <2>5. ReapInv'
    BY <2>1, <2>2, <1>e, <1>r DEF ReapInv
  <2>6. ChancesInv'
    BY <2>1, <2>2, <1>e DEF ChancesInv, AttemptBudget, InHand
  <2> QED
    BY <2>3, <2>4, <2>5, <2>6 DEF OrderlyInv
<1>5. CASE ClaimWin(w)
  <2>1. held[w] \in Msg /\ status[held[w]] = "PENDING" /\ pc[w] = "selected" /\ ~InHand(w)
    BY <1>5 DEF ClaimWin, LocalsInv, InHand
  <2>2. /\ status' = [status EXCEPT ![held[w]] = "CLAIMED"]
        /\ claimedBy' = [claimedBy EXCEPT ![held[w]] = w]
        /\ attempts' = [attempts EXCEPT ![held[w]] = @ + 1]
        /\ cold' = cold \ {held[w]}
        /\ pc' = [pc EXCEPT ![w] = IF held[w] \in Unknown THEN "unknown" ELSE "running"]
        /\ UNCHANGED <<asked, held, seen, backs, deads>>
    BY <1>5 DEF ClaimWin, TakeRow
  <2>3. InHand(w)'
    BY <2>2 DEF InHand
  <2>4. \A v \in Worker : v # w => (InHand(v)' <=> InHand(v)) /\ pc'[v] = pc[v]
    BY <2>2 DEF InHand
  <2>5. ExclusiveRun'
    BY <1>c, <2>1, <2>2, <2>3, <2>4 DEF ExclusiveRun
  <2>6. QuietInv'
    <3>1. \A m \in Msg : (status[m] = "CLAIMED" => InUse(m)) => (status'[m] = "CLAIMED" => InUse(m)')
      BY <2>1, <2>2, <2>3, <2>4 DEF InUse
    <3>2. pc'[w] \notin {"down", "reaping"}
      BY <2>2
    <3> QED
      BY <1>q, <2>2, <2>4, <3>1, <3>2 DEF QuietInv
  <2>7. OwnedInv'
    BY <1>d, <2>1, <2>2, <2>5 DEF OwnedInv, Terminal
  <2>8. ReapInv'
    BY <1>e, <1>r, <2>1, <2>2 DEF ReapInv
  <2>9. ChancesInv'
    <3>1. attempts[held[w]] < MaxAttempts /\ \A m \in Msg : attempts[m] \in Nat
      BY <1>e, <2>1 DEF ChancesInv
    <3>2. \A v \in Worker : v # w /\ InHand(v) => held[v] # held[w] /\ held[v] \in Msg
      BY <1>c, <2>1
    <3>3. AttemptBudget'
      BY <1>e, <2>1, <2>2, <3>1 DEF ChancesInv, AttemptBudget
    <3>4. \A m \in Msg : /\ status'[m] = "PENDING" => attempts'[m] < MaxAttempts
                         /\ status'[m] = "NONE" => attempts'[m] = 0
      BY <1>e, <2>1, <2>2 DEF ChancesInv
    <3>5. \A v \in Worker :
            InHand(v)' => /\ pc'[v] = "failed" => seen'[v] = attempts'[held'[v]]
                          /\ pc'[v] = "unknown" <=> held'[v] \in Unknown
      BY <1>e, <2>1, <2>2, <2>4, <3>2 DEF ChancesInv
    <3> QED
      BY <3>3, <3>4, <3>5 DEF ChancesInv
  <2> QED
    BY <2>6, <2>7, <2>8, <2>9 DEF OrderlyInv
<1>6. CASE HandlerReturns(w) \/ HandlerRaises(w)
  <2>1. /\ pc[w] = "running" /\ pc' \in {[pc EXCEPT ![w] = "returned"], [pc EXCEPT ![w] = "failing"]}
        /\ UNCHANGED <<row, asked, held, seen, backs, deads>>
    BY <1>6 DEF HandlerReturns, HandlerRaises
  <2> QED
    BY <2>1, NothingMoves DEF InHand
<1>7. CASE FailRead(w)
  <2>1. /\ pc[w] = "failing" /\ pc' = [pc EXCEPT ![w] = "failed"]
        /\ UNCHANGED <<row, asked, held, backs, deads>>
    BY <1>7 DEF FailRead
  <2>2. held[w] \in Rows /\ seen' = [seen EXCEPT ![w] = attempts[held[w]]]
    BY <1>7, <1>c DEF FailRead, InHand
  <2>3. \A v \in Worker : InHand(v)' <=> InHand(v)
    BY <2>1 DEF InHand
  <2>4. QuietInv'
    BY <1>q, <2>1, <2>3 DEF QuietInv, InUse
  <2>5. OwnedInv'
    BY <1>c, <1>d, <2>1, <2>3 DEF OwnedInv, ExclusiveRun
  <2>6. ReapInv' /\ ChancesInv'
    BY <1>e, <2>1, <2>2, <2>3 DEF ReapInv, ChancesInv, AttemptBudget
  <2> QED
    BY <2>4, <2>5, <2>6 DEF OrderlyInv
<1>8. CASE Complete(w) \/ FailWrite(w) \/ FailUnknown(w)
  <2>1. InHand(w) /\ held[w] \in Msg /\ held[w] \in Rows /\ status[held[w]] = "CLAIMED"
    BY <1>8, <1>c DEF Complete, FailWrite, FailUnknown, InHand
  <2>2. /\ \A v \in Worker : v # w => /\ pc'[v] = pc[v] /\ held'[v] = held[v] /\ seen'[v] = seen[v]
                                      /\ InHand(v)' <=> InHand(v)
        /\ pc'[w] = "claiming" /\ ~InHand(w)'
    BY <1>8 DEF Complete, FailWrite, FailUnknown, PutDown, InHand
  <2>3. \A v \in Worker : InHand(v) /\ v # w => held[v] # held[w] /\ held[v] \in Msg
    BY <1>c, <2>1
  <2>4. /\ \A m \in Msg \ {held[w]} : status'[m] = status[m] /\ claimedBy'[m] = claimedBy[m]
        /\ status'[held[w]] \in {"DONE", "DEAD_LETTER", "PENDING"}
        /\ cold' = cold \ {held[w]}
        /\ UNCHANGED <<asked, attempts, backs, deads>>
    BY <1>8, <2>1 DEF Complete, FailWrite, FailUnknown
  <2>5. QuietInv'
    <3>1. \A m \in Msg : (status[m] = "CLAIMED" => InUse(m)) => (status'[m] = "CLAIMED" => InUse(m)')
      BY <2>2, <2>4 DEF InUse
    <3> QED
      BY <1>q, <2>2, <2>4, <3>1 DEF QuietInv
  <2>6. OwnedInv'
    <3>1. ExclusiveRun'
      BY <1>c, <2>2, <2>3, <2>4 DEF ExclusiveRun
    <3>2. \A m \in cold' : m \in Msg /\ m \in cold /\ m # held[w]
      BY <2>4
    <3>3. \A o \in Operator : asked'[o] # None => status'[asked'[o]] \in Terminal \cup {"GONE"}
      BY <1>d, <2>1, <2>4 DEF Terminal
    <3> QED
      BY <1>d, <2>4, <3>1, <3>2, <3>3 DEF OwnedInv
  <2>7. ReapInv'
    BY <1>e, <1>r, <2>1, <2>2, <2>4 DEF ReapInv, InHand
  <2>8. ChancesInv'
    <3>1. status'[held[w]] = "PENDING" => attempts[held[w]] < MaxAttempts
      BY <1>8, <1>e, <2>1 DEF Complete, FailWrite, FailUnknown, ChancesInv, Spent
    <3> QED
      BY <1>e, <2>2, <2>3, <2>4, <3>1 DEF ChancesInv, AttemptBudget
  <2> QED
    BY <2>5, <2>6, <2>7, <2>8 DEF OrderlyInv
<1>9. CASE Heartbeat(w)
  <2>1. UNCHANGED <<status, attempts, claimedBy, asked, pc, held, seen, backs, deads>>
    BY <1>9 DEF Heartbeat
  <2>2. cold' \in SUBSET cold
    BY <1>9 DEF Heartbeat
  <2>3. QuietInv'
    BY <1>q, <2>1, <2>2 DEF QuietInv, InUse, InHand
  <2>4. OwnedInv'
    BY <1>c, <1>d, <2>1, <2>2 DEF OwnedInv, ExclusiveRun, InHand
  <2>5. ReapInv' /\ ChancesInv'
    BY <1>e, <2>1 DEF ReapInv, ChancesInv, AttemptBudget, InHand
  <2> QED
    BY <2>3, <2>4, <2>5 DEF OrderlyInv
<1>10. CASE Crash(w) \/ HandlerKills(w)
  <2>1. ~Faultless
    BY <1>10 DEF Crash, HandlerKills, Faultless
  <2>2. /\ pc' = [pc EXCEPT ![w] = "down"] /\ ~InHand(w)'
        /\ \A v \in Worker : v # w => (InHand(v)' <=> InHand(v)) /\ held'[v] = held[v] /\ seen'[v] = seen[v]
        /\ backs' = [backs EXCEPT ![w] = {}] /\ deads' = [deads EXCEPT ![w] = {}]
        /\ UNCHANGED <<status, attempts, claimedBy, cold, asked>>
    BY <1>10 DEF Crash, HandlerKills, Die, InHand
  <2>3. QuietInv'
    BY <2>1 DEF QuietInv
  <2>4. OwnedInv'
    BY <1>c, <1>d, <2>2 DEF OwnedInv, ExclusiveRun
  <2>5. ReapInv'
    BY <1>e, <2>2 DEF ReapInv
  <2>6. ChancesInv'
    BY <1>e, <2>2 DEF ChancesInv, AttemptBudget
  <2> QED
    BY <2>3, <2>4, <2>5, <2>6 DEF OrderlyInv
<1>11. CASE Restart(w)
  <2>1. /\ pc[w] = "down" /\ pc' = [pc EXCEPT ![w] = "top"]
        /\ UNCHANGED <<row, asked, held, seen, backs, deads>>
    BY <1>11 DEF Restart
  <2> QED
    BY <2>1, NothingMoves DEF InHand
<1> QED
  BY <1>1, <1>2, <1>3, <1>4, <1>5, <1>6, <1>7, <1>8, <1>9, <1>10, <1>11 DEF WorkerStep

\* The invariant of orderly operation.
LEMMA OrderlyInductive == ASSUME Orderly PROVE Spec => []OrderlyInv
<1>1. Init => OrderlyInv
  BY DEF Init, OrderlyInv, QuietInv, OwnedInv, ExclusiveRun, InUse, InHand, ReapInv,
         ChancesInv, AttemptBudget
<1>2. TypeInv /\ OrderlyInv /\ [Next]_vars => OrderlyInv'
  <2>1. TypeInv /\ OrderlyInv /\ UNCHANGED vars => OrderlyInv'
    BY NothingMoves DEF vars, row, proc, req, InHand
  <2> QED
    BY <2>1, OrderlyRequests, OrderlyWorker DEF Next
<1> QED
  BY <1>1, <1>2, TypeInductive, PTL DEF Spec

\* queue.claim: two workers that do not fail are kept off one message by the
\* conditional UPDATE alone, and a worker that is alone never loses its row to its
\* own reaper, however often it is killed or suspended.
THEOREM ClaimExcludes == ASSUME Orderly PROVE Spec => []ExclusiveRun
  BY OrderlyInductive, PTL DEF OrderlyInv, OwnedInv

\* queue.fail, queue.reap_stale: and then no message is handed out more than
\* max_attempts times.
THEOREM AttemptsBounded == ASSUME Orderly PROVE Spec => []AttemptBudget
  BY OrderlyInductive, PTL DEF OrderlyInv, ChancesInv

\* What the violation of OneRunner needs: a process that fails beside another one.
THEOREM NoSecondRunner == ASSUME Orderly PROVE Spec => []OneRunner
<1>1. ExclusiveRun => OneRunner
  BY DEF ExclusiveRun, OneRunner, InHand
<1> QED
  BY <1>1, ClaimExcludes, PTL
-----------------------------------------------------------------------------
(* Orderly operation implements the abstract queue.                        *)

\* What the mapping shows of a worker does not change with the steps it takes
\* inside a run or outside one.
LEMMA HandUnchanged ==
  ASSUME \A w \in Worker : /\ InHand(w)' <=> InHand(w)
                           /\ InHand(w) => held'[w] = held[w]
                           /\ pc'[w] = "returned" <=> pc[w] = "returned"
  PROVE  UNCHANGED <<Hand, Back>>
<1>1. Hand' = Hand
  BY DEF Hand
<1>2. Back' = Back
  BY DEF Back
<1> QED
  BY <1>1, <1>2

\* A worker that leaves a run, by recording its end or by dying, has an empty hand.
LEMMA HandEmptied ==
  ASSUME NEW w \in Worker, ~InHand(w)', pc'[w] # "returned",
         \A v \in Worker : v # w => pc'[v] = pc[v] /\ held'[v] = held[v]
  PROVE  Hand' = [Hand EXCEPT ![w] = None] /\ Back' = Back \ {w}
<1>1. \A v \in Worker : v # w => (InHand(v)' <=> InHand(v))
  BY DEF InHand
<1>2. Hand' = [Hand EXCEPT ![w] = None]
  BY <1>1 DEF Hand
<1>3. Back' = Back \ {w}
  BY DEF Back
<1> QED
  BY <1>2, <1>3

\* The requests: a submission, a retry, or nothing that the abstract queue sees.
LEMMA RequestsRefine ==
  ASSUME Orderly, TypeInv, OrderlyInv,
         \/ \E m \in Msg : BecomeDue(m) \/ GoCold(m) \/ Stall(m)
         \/ \E p \in Producer : \/ \E k \in Keys : EnqueueLook(p, k)
                                \/ \E m \in Msg : EnqueueInsert(p, m)
         \/ \E o \in Operator : \/ \E m \in Msg : RetryLook(o, m)
                                \/ RetryWrite(o)
  PROVE  Abstract!Next \/ UNCHANGED Abstract!vars
<1> USE DEF row, proc, req, env, Abstract!vars
<1>h. UNCHANGED proc
  BY DEF BecomeDue, GoCold, Stall, EnqueueLook, EnqueueInsert, RetryLook, RetryWrite
<1>k. UNCHANGED <<Hand, Back>>
  BY <1>h, HandUnchanged DEF InHand
<1>1. ASSUME NEW m \in Msg, BecomeDue(m) \/ GoCold(m) \/ Stall(m)
      PROVE  UNCHANGED Abstract!vars
  BY <1>1, <1>k DEF BecomeDue, GoCold, Stall
<1>2. ASSUME NEW p \in Producer, NEW k \in Keys, EnqueueLook(p, k)
      PROVE  UNCHANGED Abstract!vars
  BY <1>2, <1>k DEF EnqueueLook
<1>3. ASSUME NEW p \in Producer, NEW m \in Msg, EnqueueInsert(p, m) PROVE Abstract!Submit(m)
  BY <1>3, <1>k DEF EnqueueInsert, Abstract!Submit
<1>4. ASSUME NEW o \in Operator, NEW m \in Msg, RetryLook(o, m)
      PROVE  UNCHANGED Abstract!vars
  BY <1>4, <1>k DEF RetryLook
<1>5. ASSUME NEW o \in Operator, RetryWrite(o)
      PROVE  UNCHANGED Abstract!vars \/ \E m \in Msg : Abstract!Retry(m)
  <2>1. asked[o] \in Msg /\ status[asked[o]] \in Terminal \cup {"GONE"}
    BY <1>5 DEF RetryWrite, OrderlyInv, OwnedInv, TypeInv, TypeOK
  <2>2. CASE asked[o] \in Rows
    <3>1. status[asked[o]] \in Terminal
      BY <2>1, <2>2 DEF Rows
    <3>2. Abstract!Retry(asked[o])
      BY <1>5, <1>k, <2>2, <3>1 DEF RetryWrite, Abstract!Retry, Abstract!Ended, Terminal
    <3> QED
      BY <2>1, <3>2
  <2>3. CASE asked[o] \notin Rows
    BY <1>5, <1>k, <2>3 DEF RetryWrite
  <2> QED
    BY <2>2, <2>3
<1> QED
  BY <1>1, <1>2, <1>3, <1>4, <1>5 DEF Abstract!Next

\* The worker's steps: taking, coming back, putting down, dropping, recovering,
\* forgetting, or nothing that the abstract queue sees.
LEMMA WorkerRefines ==
  ASSUME Orderly, TypeInv, OrderlyInv, NEW w \in Worker,
         WorkerStep(w) \/ Prune(w) \/ Heartbeat(w) \/ Crash(w) \/ Restart(w)
  PROVE  Abstract!Next \/ UNCHANGED Abstract!vars
<1> USE DEF TypeInv, TypeOK, Goto, row, proc, req, env, Abstract!vars
<1>c. \A v \in Worker : InHand(v) =>
        held[v] \in Msg /\ held[v] \in Rows /\ status[held[v]] = "CLAIMED" /\ claimedBy[held[v]] = v
  BY DEF OrderlyInv, OwnedInv, ExclusiveRun, LocalsInv, Rows
<1>e. ReapInv /\ ChancesInv
  BY DEF OrderlyInv
<1>n. None \notin Msg
  BY DEF QueueAssumption
<1>1. ASSUME \/ ReapNothing(w) \/ ReapSelect(w) \/ EndPass(w) \/ ClaimSelect(w) \/ ClaimLose(w)
             \/ HandlerRaises(w) \/ FailRead(w) \/ Heartbeat(w) \/ Restart(w)
      PROVE  UNCHANGED Abstract!vars
  <2>1. UNCHANGED <<status, attempts>>
    BY <1>1 DEF ReapNothing, ReapSelect, EndPass, ClaimSelect, Choose, ClaimLose,
       HandlerRaises, FailRead, Heartbeat, Restart
  <2>2. /\ \A v \in Worker : v # w => pc'[v] = pc[v] /\ held'[v] = held[v]
        /\ InHand(w)' <=> InHand(w)
        /\ InHand(w) => held'[w] = held[w]
        /\ pc'[w] = "returned" <=> pc[w] = "returned"
    BY <1>1 DEF ReapNothing, ReapSelect, EndPass, ClaimSelect, Choose, ClaimLose,
       HandlerRaises, FailRead, Heartbeat, Restart, InHand
  <2>3. \A v \in Worker : v # w => (InHand(v)' <=> InHand(v))
    BY <2>2 DEF InHand
  <2>4. UNCHANGED <<Hand, Back>>
    BY <2>2, <2>3, HandUnchanged
  <2> QED
    BY <2>1, <2>4
<1>2. ASSUME ReapWrite(w) PROVE Abstract!Recover(backs[w] \cup deads[w])
  <2>1. pc[w] = "reaping" /\ \A v \in Worker : v = w /\ ~InHand(v)
    BY <1>2, ReaperAlone DEF ReapWrite
  <2>2. /\ \A m \in backs[w] : status[m] = "CLAIMED" /\ attempts[m] < MaxAttempts
        /\ \A m \in deads[w] : status[m] = "CLAIMED" /\ attempts[m] >= MaxAttempts
        /\ \A m \in Msg : attempts[m] \in Nat
    BY <1>e DEF ReapInv
  <2>3. Writable(w, backs[w]) = backs[w] /\ Writable(w, deads[w]) = deads[w]
    BY <2>2 DEF Writable, Rows
  <2>4. /\ pc'[w] \in {"top", "claiming"}
        /\ status' = [m \in Msg |-> IF m \in deads[w] THEN "DEAD_LETTER"
                                    ELSE IF m \in backs[w] THEN "PENDING" ELSE status[m]]
        /\ UNCHANGED attempts
    BY <1>2, <2>3 DEF ReapWrite
  <2>5. UNCHANGED <<Hand, Back>>
    BY <2>1, <2>4, HandUnchanged DEF InHand
  <2>6. \A m \in Msg, v \in Worker : Hand[v] # m
    BY <2>1, <1>n DEF Hand
  <2>7. Abstract!OnlyMoves(backs[w] \cup deads[w])
    BY <2>4 DEF Abstract!OnlyMoves
  <2>8. \A m \in backs[w] \cup deads[w] : Abstract!Again(m) \/ Abstract!Never(m)
    BY <2>2, <2>4 DEF Abstract!Again, Abstract!Never, Abstract!HasChance
  <2> QED
    BY <2>2, <2>4, <2>5, <2>6, <2>7, <2>8 DEF Abstract!Recover
<1>3. ASSUME Prune(w) PROVE \E M \in SUBSET Msg : Abstract!Forget(M)
  <2>1. PICK old \in SUBSET {m \in Msg : status[m] \in Terminal} :
          status' = [m \in Msg |-> IF m \in old THEN "GONE" ELSE status[m]]
    BY <1>3 DEF Prune, Terminal
  <2>2. UNCHANGED attempts /\ UNCHANGED <<Hand, Back>>
    BY <1>3, HandUnchanged DEF Prune, InHand
  <2>3. Abstract!Forget(old)
    BY <2>1, <2>2 DEF Abstract!Forget, Abstract!Ended, Terminal
  <2> QED
    BY <2>1, <2>3
<1>4. ASSUME ClaimWin(w) PROVE Abstract!Take(w, held[w]) /\ held[w] \in Msg
  <2>1. held[w] \in Msg /\ status[held[w]] = "PENDING" /\ pc[w] = "selected" /\ ~InHand(w)
    BY <1>4 DEF ClaimWin, LocalsInv, InHand
  <2>2. /\ status' = [status EXCEPT ![held[w]] = "CLAIMED"]
        /\ attempts' = [attempts EXCEPT ![held[w]] = @ + 1]
        /\ pc' = [pc EXCEPT ![w] = IF held[w] \in Unknown THEN "unknown" ELSE "running"]
        /\ held' = held
    BY <1>4 DEF ClaimWin, TakeRow
  <2>3. Hand[w] = None /\ \A v \in Worker : Hand[v] # held[w]
    BY <1>c, <1>n, <2>1 DEF Hand
  <2>4. Abstract!HasChance(held[w])
    BY <1>e, <2>1 DEF ChancesInv, Abstract!HasChance
  <2>5. InHand(w)' /\ \A v \in Worker : v # w => (InHand(v)' <=> InHand(v))
    BY <2>2 DEF InHand
  <2>6. Hand' = [Hand EXCEPT ![w] = held[w]]
    BY <2>2, <2>5 DEF Hand
  <2>7. Back' = Back
    BY <2>1, <2>2 DEF Back
  <2> QED
    BY <2>1, <2>2, <2>3, <2>4, <2>6, <2>7 DEF Abstract!Take
<1>5. ASSUME HandlerReturns(w) PROVE Abstract!ComeBack(w)
  <2>1. /\ pc[w] = "running" /\ pc' = [pc EXCEPT ![w] = "returned"]
        /\ UNCHANGED <<status, attempts, held>>
    BY <1>5 DEF HandlerReturns
  <2>2. held[w] \in Msg /\ held[w] \notin Unknown /\ Hand[w] = held[w]
    BY <1>c, <1>e, <2>1 DEF ChancesInv, InHand, Hand
  <2>3. \A v \in Worker : InHand(v)' <=> InHand(v)
    BY <2>1 DEF InHand
  <2>4. Hand' = Hand
    BY <2>1, <2>3 DEF Hand
  <2>5. w \notin Back /\ Back' = Back \cup {w}
    BY <2>1 DEF Back
  <2> QED
    BY <2>1, <2>2, <2>4, <2>5, <1>n DEF Abstract!ComeBack
<1>6. ASSUME Complete(w) \/ FailWrite(w) \/ FailUnknown(w) PROVE Abstract!PutDown(w)
  <2>1. /\ pc[w] \in {"returned", "failed", "unknown"}
        /\ InHand(w) /\ held[w] \in Msg /\ held[w] \in Rows /\ status[held[w]] = "CLAIMED"
    BY <1>6, <1>c DEF Complete, FailWrite, FailUnknown, InHand
  <2>2. Hand[w] = held[w] /\ held[w] # None
    BY <2>1, <1>n DEF Hand
  <2>3. /\ pc' = [pc EXCEPT ![w] = "claiming"]
        /\ held' = [held EXCEPT ![w] = None]
        /\ UNCHANGED attempts
    BY <1>6 DEF Complete, FailWrite, FailUnknown, PutDown
  <2>4. Hand' = [Hand EXCEPT ![w] = None] /\ Back' = Back \ {w}
    BY <2>3, HandEmptied DEF InHand
  <2>5. Abstract!OnlyMoves({held[w]})
    BY <1>6, <2>1 DEF Complete, FailWrite, FailUnknown, Abstract!OnlyMoves
  <2>6. CASE Complete(w)
    <3>1. w \in Back /\ status'[held[w]] = "DONE"
      BY <2>6, <2>1 DEF Complete, Back
    <3> QED
      BY <2>1, <2>2, <2>3, <2>4, <2>5, <3>1 DEF Abstract!PutDown
  <2>7. CASE FailWrite(w)
    <3>1. w \notin Back /\ seen[w] = attempts[held[w]] /\ attempts[held[w]] \in Nat
      BY <2>7, <2>1, <1>e DEF FailWrite, Back, ChancesInv
    <3>2. status'[held[w]] = IF Spent(seen[w]) THEN "DEAD_LETTER" ELSE "PENDING"
      BY <2>7, <2>1 DEF FailWrite
    <3>3. Abstract!Again(held[w]) \/ Abstract!Never(held[w])
      BY <3>1, <3>2 DEF Spent, Abstract!Again, Abstract!Never, Abstract!HasChance
    <3> QED
      BY <2>1, <2>2, <2>3, <2>4, <2>5, <3>1, <3>3 DEF Abstract!PutDown
  <2>8. CASE FailUnknown(w)
    <3>1. w \notin Back /\ held[w] \in Unknown /\ status'[held[w]] = "DEAD_LETTER"
      BY <2>8, <2>1, <1>e DEF FailUnknown, Back, ChancesInv
    <3>2. Abstract!Never(held[w])
      BY <3>1 DEF Abstract!Never
    <3> QED
      BY <2>1, <2>2, <2>3, <2>4, <2>5, <3>1, <3>2 DEF Abstract!PutDown
  <2> QED
    BY <1>6, <2>6, <2>7, <2>8
<1>7. ASSUME Crash(w) \/ HandlerKills(w) PROVE Abstract!Drop(w) \/ UNCHANGED Abstract!vars
  <2>1. /\ pc' = [pc EXCEPT ![w] = "down"] /\ held' = [held EXCEPT ![w] = None]
        /\ UNCHANGED <<status, attempts>>
    BY <1>7 DEF Crash, HandlerKills, Die
  <2>2. Hand' = [Hand EXCEPT ![w] = None] /\ Back' = Back \ {w}
    BY <2>1, HandEmptied DEF InHand
  <2>3. CASE InHand(w)
    <3>1. Hand[w] # None
      BY <2>3, <1>c, <1>n DEF Hand
    <3> QED
      BY <2>1, <2>2, <3>1 DEF Abstract!Drop
  <2>4. CASE ~InHand(w)
    <3>1. Hand[w] = None /\ w \notin Back /\ Hand = [v \in Worker |-> Hand[v]]
      BY <2>4 DEF Hand, Back, InHand
    <3>2. Hand' = Hand
      BY <2>2, <3>1
    <3>3. Back' = Back
      BY <2>2, <3>1
    <3> QED
      BY <2>1, <3>2, <3>3
  <2> QED
    BY <2>3, <2>4
<1>8. backs[w] \cup deads[w] \in SUBSET Msg
  OBVIOUS
<1> QED
  BY <1>1, <1>2, <1>3, <1>4, <1>5, <1>6, <1>7, <1>8 DEF WorkerStep, Abstract!Next

\* messaging/queue.py as a whole, in orderly operation: every step of producers,
\* workers, reapers and operators is a step of the abstract queue or invisible to it.
THEOREM RefinesQueue == ASSUME Orderly PROVE Spec => IsWorkQueue
<1>1. Init => Abstract!Init
  BY DEF Init, Abstract!Init, Hand, Back, InHand
<1>2. TypeInv /\ OrderlyInv /\ [Next]_vars => [Abstract!Next]_Abstract!vars
  <2>1. UNCHANGED vars => UNCHANGED Abstract!vars
    BY HandUnchanged DEF vars, row, proc, req, Abstract!vars, InHand
  <2> QED
    BY <2>1, RequestsRefine, WorkerRefines DEF Next
<1> QED
  BY <1>1, <1>2, TypeInductive, OrderlyInductive, PTL DEF Spec, IsWorkQueue, Abstract!Spec
-----------------------------------------------------------------------------
(* A key's messages in flight: what has been inserted, and what is about to be. *)

Flying(k)  == {m \in Msg : KeyOf[m] = k /\ status[m] \in Active}
Wanting(k) == {p \in Producer : wanted[p] = k}
Asking(k)  == IF \E o \in Operator : asked[o] # None /\ KeyOf[asked[o]] = k THEN 1 ELSE 0

\* A key's account: what is in flight and what will be is paid for by the producers,
\* of whom each may hold the key once, and by the retries.
KeyInv ==
  /\ \A o \in Operator : asked[o] # None => retries > 0
  /\ \A k \in Keys \ {NoKey} :
       /\ IsFiniteSet(Flying(k))
       /\ Cardinality(Flying(k)) + Cardinality(Wanting(k)) + Asking(k)
            <= Cardinality(Producer) + retries

\* The counts are numbers, and a set that only lost members counts no more.
LEMMA KeyCounts ==
  ASSUME IsFiniteSet(Producer), NEW k
  PROVE  /\ Asking(k) \in {0, 1}
         /\ Cardinality(Producer) \in Nat
         /\ IsFiniteSet(Wanting(k)) /\ Cardinality(Wanting(k)) \in Nat
         /\ Cardinality(Wanting(k)) <= Cardinality(Producer)
         /\ IsFiniteSet(Flying(k)) => Cardinality(Flying(k)) \in Nat
<1>1. Wanting(k) \in SUBSET Producer
  BY DEF Wanting
<1>2. IsFiniteSet(Wanting(k)) /\ Cardinality(Wanting(k)) <= Cardinality(Producer)
  BY <1>1, FS_Subset
<1>3. Cardinality(Producer) \in Nat /\ Cardinality(Wanting(k)) \in Nat
  BY <1>2, FS_CardinalityType
<1>4. IsFiniteSet(Flying(k)) => Cardinality(Flying(k)) \in Nat
  BY FS_CardinalityType
<1>5. Asking(k) \in {0, 1}
  BY DEF Asking
<1> QED
  BY <1>2, <1>3, <1>4, <1>5

\* A step that brings nothing into flight, and after which no producer and no
\* operator has more in mind than before.
LEMMA NothingNewInFlight ==
  ASSUME IsFiniteSet(Producer), TypeInv, KeyInv, UNCHANGED <<wanted, asked, retries>>,
         \A m \in Msg : status'[m] \in Active => status[m] \in Active
  PROVE  KeyInv'
<1> SUFFICES ASSUME NEW k \in Keys \ {NoKey}
    PROVE  /\ IsFiniteSet(Flying(k)')
           /\ Cardinality(Flying(k)') + Cardinality(Wanting(k)') + Asking(k)'
                <= Cardinality(Producer) + retries'
  BY DEF KeyInv
<1>1. Flying(k)' \in SUBSET Flying(k) /\ IsFiniteSet(Flying(k))
  BY DEF Flying, KeyInv
<1>2. IsFiniteSet(Flying(k)') /\ Cardinality(Flying(k)') <= Cardinality(Flying(k))
  BY <1>1, FS_Subset
<1>3. Cardinality(Flying(k)') \in Nat /\ Cardinality(Flying(k)) \in Nat
  BY <1>1, <1>2, FS_CardinalityType
<1>4. Wanting(k)' = Wanting(k) /\ Asking(k)' = Asking(k) /\ retries' = retries
  BY DEF Wanting, Asking
<1>5. retries \in Nat
  BY DEF TypeInv, TypeOK
<1>6. Cardinality(Flying(k)) + Cardinality(Wanting(k)) + Asking(k)
        <= Cardinality(Producer) + retries
  BY DEF KeyInv
<1> QED
  BY ONLY <1>2, <1>3, <1>4, <1>5, <1>6, KeyCounts, IsFiniteSet(Producer)

\* A producer that finds nothing of its key in flight takes one of the places that
\* the producers have.
LEMMA LookCounts ==
  ASSUME IsFiniteSet(Producer), TypeInv, KeyInv,
         NEW p \in Producer, NEW want \in Keys, EnqueueLook(p, want)
  PROVE  KeyInv'
<1>1. UNCHANGED <<status, asked, retries>> /\ retries \in Nat
  BY DEF EnqueueLook, row, env, TypeInv, TypeOK
<1>2. ASSUME NEW k \in Keys \ {NoKey}
      PROVE  /\ IsFiniteSet(Flying(k)')
             /\ Cardinality(Flying(k)') + Cardinality(Wanting(k)') + Asking(k)'
                  <= Cardinality(Producer) + retries'
  <2>1. /\ Flying(k)' = Flying(k) /\ Asking(k)' = Asking(k) /\ IsFiniteSet(Flying(k))
        /\ Cardinality(Flying(k)) + Cardinality(Wanting(k)) + Asking(k)
             <= Cardinality(Producer) + retries
    BY <1>1 DEF Flying, Asking, KeyInv
  <2>2. CASE k # want
    <3>1. Wanting(k)' = Wanting(k)
      BY <2>2 DEF EnqueueLook, Wanting, TypeInv, TypeOK, Keys
    <3> QED
      BY <1>1, <2>1, <3>1
  <2>3. CASE k = want
    <3>1. Flying(k) = {}
      BY <2>3 DEF EnqueueLook, InFlight, Flying
    <3>2. Cardinality(Flying(k)) = 0
      BY <3>1, FS_EmptySet
    <3>3. Cardinality(Wanting(k)') \in Nat /\ Cardinality(Wanting(k)') <= Cardinality(Producer)
      <4>1. Wanting(k)' \in SUBSET Producer
        BY DEF Wanting
      <4>2. IsFiniteSet(Wanting(k)') /\ Cardinality(Wanting(k)') <= Cardinality(Producer)
        BY <4>1, FS_Subset
      <4> QED
        BY <4>2, FS_CardinalityType
    <3>4. Asking(k) <= retries
      BY <1>1 DEF Asking, KeyInv
    <3>5. Cardinality(Producer) \in Nat /\ Asking(k) \in {0, 1}
      BY KeyCounts
    <3> QED
      BY ONLY <1>1, <2>1, <3>2, <3>3, <3>4, <3>5
  <2> QED
    BY <2>2, <2>3
<1> QED
  BY <1>1, <1>2 DEF KeyInv

\* The insert turns the producer's place into a message in flight.
LEMMA InsertCounts ==
  ASSUME IsFiniteSet(Producer), TypeInv, KeyInv,
         NEW p \in Producer, NEW m \in Msg, EnqueueInsert(p, m)
  PROVE  KeyInv'
<1>1. /\ UNCHANGED <<asked, retries>> /\ retries \in Nat
      /\ wanted[p] = KeyOf[m] /\ KeyOf[m] # None
      /\ wanted' = [wanted EXCEPT ![p] = None]
      /\ status[m] = "NONE" /\ status' = [status EXCEPT ![m] = "PENDING"]
  BY DEF EnqueueInsert, env, TypeInv, TypeOK
<1>2. ASSUME NEW k \in Keys \ {NoKey}
      PROVE  /\ IsFiniteSet(Flying(k)')
             /\ Cardinality(Flying(k)') + Cardinality(Wanting(k)') + Asking(k)'
                  <= Cardinality(Producer) + retries'
  <2>1. /\ Asking(k)' = Asking(k) /\ IsFiniteSet(Flying(k))
        /\ Cardinality(Flying(k)) + Cardinality(Wanting(k)) + Asking(k)
             <= Cardinality(Producer) + retries
    BY <1>1 DEF Asking, KeyInv
  <2>2. CASE k # KeyOf[m]
    <3>1. Wanting(k)' = Wanting(k) /\ Flying(k)' = Flying(k)
      BY <1>1, <2>2 DEF Wanting, Flying, TypeInv, TypeOK, Keys
    <3> QED
      BY <1>1, <2>1, <3>1
  <2>3. CASE k = KeyOf[m]
    <3>1. /\ Flying(k)' = Flying(k) \cup {m} /\ m \notin Flying(k)
          /\ Wanting(k)' = Wanting(k) \ {p} /\ p \in Wanting(k)
      BY <1>1, <2>3 DEF Wanting, Flying, Active, TypeInv, TypeOK, Keys
    <3>2. /\ IsFiniteSet(Flying(k)')
          /\ Cardinality(Flying(k)') = Cardinality(Flying(k)) + 1
      BY <2>1, <3>1, FS_AddElement
    <3>3. Cardinality(Wanting(k)') = Cardinality(Wanting(k)) - 1
      <4>1. IsFiniteSet(Wanting(k))
        BY KeyCounts
      <4> QED
        BY <3>1, <4>1, FS_RemoveElement
    <3>4. /\ Cardinality(Flying(k)) \in Nat /\ Cardinality(Wanting(k)) \in Nat
          /\ Cardinality(Producer) \in Nat /\ Asking(k) \in {0, 1}
      BY <2>1, KeyCounts
    <3> QED
      BY ONLY <1>1, <2>1, <3>2, <3>3, <3>4
  <2> QED
    BY <2>2, <2>3
<1> QED
  BY <1>1, <1>2 DEF KeyInv

\* The operator pays for a message with a retry when it looks, and has it when it
\* writes.
LEMMA RetryPays ==
  ASSUME IsFiniteSet(Producer), \A o, q \in Operator : o = q, TypeInv, KeyInv,
         NEW o \in Operator, (\E m \in Msg : RetryLook(o, m)) \/ RetryWrite(o)
  PROVE  KeyInv'
<1>1. UNCHANGED wanted /\ retries \in Nat
  BY DEF RetryLook, RetryWrite, TypeInv, TypeOK
<1>2. CASE \E m \in Msg : RetryLook(o, m)
  <2>1. UNCHANGED status /\ retries' = retries + 1 /\ asked[o] = None
    BY <1>2 DEF RetryLook, row
  <2>2. ASSUME NEW k \in Keys \ {NoKey}
        PROVE  /\ IsFiniteSet(Flying(k)')
               /\ Cardinality(Flying(k)') + Cardinality(Wanting(k)') + Asking(k)'
                    <= Cardinality(Producer) + retries'
    <3>1. /\ Flying(k)' = Flying(k) /\ Wanting(k)' = Wanting(k)
          /\ Asking(k) = 0 /\ Asking(k)' \in {0, 1}
      BY <1>1, <2>1 DEF Flying, Wanting, Asking
    <3>2. /\ IsFiniteSet(Flying(k))
          /\ Cardinality(Flying(k)) + Cardinality(Wanting(k)) + Asking(k)
               <= Cardinality(Producer) + retries
      BY DEF KeyInv
    <3>3. /\ Cardinality(Flying(k)) \in Nat /\ Cardinality(Wanting(k)) \in Nat
          /\ Cardinality(Producer) \in Nat
      BY <3>2, KeyCounts
    <3> QED
      BY ONLY <1>1, <2>1, <3>1, <3>2, <3>3
  <2> QED
    BY <1>1, <2>1, <2>2 DEF KeyInv
<1>3. CASE RetryWrite(o)
  <2>1. PICK m \in Msg : m = asked[o]
    BY <1>3 DEF RetryWrite, TypeInv, TypeOK
  <2>2. /\ UNCHANGED retries /\ asked' = [asked EXCEPT ![o] = None]
        /\ m # None
        /\ status' = status \/ status' = [status EXCEPT ![m] = "PENDING"]
    BY <1>3, <2>1 DEF RetryWrite, env
  <2>3. \A q \in Operator : asked'[q] = None
    BY <2>2 DEF TypeInv, TypeOK
  <2>4. ASSUME NEW k \in Keys \ {NoKey}
        PROVE  /\ IsFiniteSet(Flying(k)')
               /\ Cardinality(Flying(k)') + Cardinality(Wanting(k)') + Asking(k)'
                    <= Cardinality(Producer) + retries'
    <3>1. /\ IsFiniteSet(Flying(k))
          /\ Cardinality(Flying(k)) + Cardinality(Wanting(k)) + Asking(k)
               <= Cardinality(Producer) + retries
      BY DEF KeyInv
    <3>2. Wanting(k)' = Wanting(k) /\ Asking(k)' = 0
      BY <1>1, <2>3 DEF Wanting, Asking
    <3>3. CASE KeyOf[m] = k
      <4>1. Asking(k) = 1
        BY <2>1, <2>2, <3>3 DEF Asking
      <4>2. Flying(k)' \in SUBSET (Flying(k) \cup {m})
        BY <2>2 DEF Flying, TypeInv, TypeOK
      <4>3. IsFiniteSet(Flying(k) \cup {m}) /\ Cardinality(Flying(k)) \in Nat
            /\ Cardinality(Flying(k) \cup {m}) <= Cardinality(Flying(k)) + 1
        <5>1. Cardinality(Flying(k)) \in Nat
          BY <3>1, KeyCounts
        <5>2. IsFiniteSet(Flying(k) \cup {m}) /\ Cardinality(Flying(k) \cup {m})
                = IF m \in Flying(k) THEN Cardinality(Flying(k)) ELSE Cardinality(Flying(k)) + 1
          BY <3>1, FS_AddElement
        <5> QED
          BY <5>1, <5>2
      <4>4. /\ IsFiniteSet(Flying(k)')
            /\ Cardinality(Flying(k)') <= Cardinality(Flying(k) \cup {m})
        BY <4>2, <4>3, FS_Subset
      <4>5. /\ Cardinality(Flying(k)') \in Nat /\ Cardinality(Flying(k) \cup {m}) \in Nat
        BY <4>3, <4>4, FS_CardinalityType
      <4>6. Cardinality(Wanting(k)) \in Nat /\ Cardinality(Producer) \in Nat
        BY KeyCounts
      <4> QED
        BY ONLY <1>1, <2>2, <3>1, <3>2, <4>1, <4>3, <4>4, <4>5, <4>6
    <3>4. CASE KeyOf[m] # k
      <4>1. Flying(k)' = Flying(k)
        BY <2>2, <3>4 DEF Flying, TypeInv, TypeOK
      <4>2. /\ Cardinality(Flying(k)) \in Nat /\ Cardinality(Wanting(k)) \in Nat
            /\ Cardinality(Producer) \in Nat /\ Asking(k) \in {0, 1}
        BY <3>1, KeyCounts
      <4> QED
        BY ONLY <1>1, <2>2, <3>1, <3>2, <4>1, <4>2
    <3> QED
      BY <3>3, <3>4
  <2> QED
    BY <2>3, <2>4 DEF KeyInv
<1> QED
  BY <1>2, <1>3

\* No other step touches the account, but to close it.
LEMMA KeyStep ==
  ASSUME Orderly, IsFiniteSet(Producer), TypeInv, OrderlyInv, KeyInv, [Next]_vars
  PROVE  KeyInv'
<1> USE DEF TypeInv, TypeOK, Goto, row, proc, req, env
<1>b. \A w \in Worker : InHand(w) => held[w] \in Msg /\ status[held[w]] = "CLAIMED"
  BY DEF OrderlyInv, OwnedInv, ExclusiveRun, LocalsInv
<1>1. ASSUME NEW m \in Msg, BecomeDue(m) \/ GoCold(m) \/ Stall(m) PROVE KeyInv'
  BY <1>1, NothingNewInFlight DEF BecomeDue, GoCold, Stall
<1>2. ASSUME NEW p \in Producer, NEW k \in Keys, EnqueueLook(p, k) PROVE KeyInv'
  BY <1>2, LookCounts
<1>3. ASSUME NEW p \in Producer, NEW m \in Msg, EnqueueInsert(p, m) PROVE KeyInv'
  BY <1>3, InsertCounts
<1>4. ASSUME NEW o \in Operator, NEW m \in Msg, RetryLook(o, m) PROVE KeyInv'
  BY <1>4, RetryPays DEF Orderly
<1>5. ASSUME NEW o \in Operator, RetryWrite(o) PROVE KeyInv'
  BY <1>5, RetryPays DEF Orderly
<1>6. ASSUME NEW w \in Worker, \/ ReapNothing(w) \/ EndPass(w) \/ ClaimSelect(w)
                               \/ ClaimLose(w) \/ HandlerReturns(w)
                               \/ HandlerRaises(w) \/ FailRead(w)
      PROVE  KeyInv'
  BY <1>6, NothingNewInFlight DEF ReapNothing, EndPass, ClaimSelect, Choose, ClaimLose,
     HandlerReturns, HandlerRaises, FailRead
<1>7. ASSUME NEW w \in Worker, \/ ReapSelect(w) \/ Heartbeat(w)
                               \/ Crash(w) \/ HandlerKills(w) \/ Restart(w)
      PROVE  KeyInv'
  BY <1>7, NothingNewInFlight DEF ReapSelect, Heartbeat, Crash, HandlerKills, Die, Restart
<1>8. ASSUME NEW w \in Worker, Prune(w) PROVE KeyInv'
  <2>1. \A m \in Msg : status'[m] \in Active => status[m] \in Active
    BY <1>8 DEF Prune, Active
  <2> QED BY <1>8, <2>1, NothingNewInFlight DEF Prune
<1>9. ASSUME NEW w \in Worker, ClaimWin(w) PROVE KeyInv'
  <2>1. \A m \in Msg : status'[m] \in Active => status[m] \in Active
    BY <1>9 DEF ClaimWin, TakeRow, Active
  <2> QED BY <1>9, <2>1, NothingNewInFlight DEF ClaimWin, TakeRow
<1>10. ASSUME NEW w \in Worker, Complete(w) \/ FailWrite(w) \/ FailUnknown(w)
       PROVE  KeyInv'
  <2>1. held[w] \in Msg /\ status[held[w]] = "CLAIMED"
    BY <1>10, <1>b DEF Complete, FailWrite, FailUnknown, InHand
  <2>2. \A m \in Msg : status'[m] \in Active => status[m] \in Active
    BY <1>10, <2>1 DEF Complete, FailWrite, FailUnknown, Active
  <2> QED
    BY <1>10, <2>2, NothingNewInFlight DEF Complete, FailWrite, FailUnknown
<1>11. ASSUME NEW w \in Worker, ReapWrite(w) PROVE KeyInv'
  <2>1. \A m \in backs[w] \cup deads[w] : status[m] = "CLAIMED"
    BY DEF OrderlyInv, ReapInv
  <2>2. \A m \in Msg : status'[m] \in Active => status[m] \in Active
    BY <1>11, <2>1 DEF ReapWrite, Writable, Active
  <2> QED
    BY <1>11, <2>2, NothingNewInFlight DEF ReapWrite
<1>12. CASE UNCHANGED vars
  BY <1>12, NothingNewInFlight DEF vars
<1> QED
  BY <1>1, <1>2, <1>3, <1>4, <1>5, <1>6, <1>7, <1>8, <1>9, <1>10, <1>11, <1>12
     DEF Next, WorkerStep

\* The account balances from the first message on.
LEMMA KeyInductive ==
  ASSUME Orderly, IsFiniteSet(Producer)
  PROVE  Spec => []KeyInv
<1>1. ASSUME Init PROVE KeyInv
  <2>1. ASSUME NEW k PROVE Flying(k) = {} /\ Asking(k) = 0
    BY <1>1 DEF Init, Flying, Asking, Active
  <2>2. ASSUME NEW k \in Keys PROVE Wanting(k) = {}
    BY <1>1 DEF Init, Wanting, Keys
  <2>3. IsFiniteSet({}) /\ Cardinality({}) = 0 /\ Cardinality(Producer) \in Nat
    BY FS_EmptySet, FS_CardinalityType
  <2>4. retries = 0 /\ \A o \in Operator : asked[o] = None
    BY <1>1 DEF Init
  <2>5. ASSUME NEW k \in Keys \ {NoKey}
        PROVE  /\ IsFiniteSet(Flying(k))
               /\ Cardinality(Flying(k)) + Cardinality(Wanting(k)) + Asking(k)
                    <= Cardinality(Producer) + retries
    <3>1. Flying(k) = {} /\ Wanting(k) = {} /\ Asking(k) = 0
      BY <2>1, <2>2
    <3> QED
      BY ONLY <2>3, <2>4, <3>1
  <2> QED
    BY <2>4, <2>5 DEF KeyInv
<1>2. TypeInv /\ OrderlyInv /\ KeyInv /\ [Next]_vars => KeyInv'
  BY KeyStep
<1> QED
  BY <1>1, <1>2, TypeInductive, OrderlyInductive, PTL DEF Spec

\* queue.enqueue's "if one is already PENDING or CLAIMED, that row is returned", for
\* any number of producers: however their looks and inserts race, and whatever an
\* operator asks for again, a key has no more messages in flight than there are
\* producers and retries.
THEOREM FlightBounded ==
  ASSUME Orderly, IsFiniteSet(Producer)
  PROVE  Spec => []InFlightBounded
<1>1. TypeInv /\ KeyInv => InFlightBounded
  <2> SUFFICES ASSUME TypeInv, KeyInv, NEW k \in Keys \ {NoKey}
               PROVE  Cardinality(Flying(k)) <= Cardinality(Producer) + retries
    BY DEF InFlightBounded, Flying
  <2>1. /\ IsFiniteSet(Flying(k))
        /\ Cardinality(Flying(k)) + Cardinality(Wanting(k)) + Asking(k)
             <= Cardinality(Producer) + retries
    BY DEF KeyInv
  <2>2. retries \in Nat
    BY DEF TypeInv, TypeOK
  <2> QED
    BY ONLY <2>1, <2>2, KeyCounts, IsFiniteSet(Producer)
<1> QED
  BY <1>1, TypeInductive, KeyInductive, PTL
=============================================================================
