----------------------------- MODULE WorkQueue -----------------------------
(***************************************************************************)
(* What a durable work queue promises: a message that was submitted is in   *)
(* one worker's hands at a time, leaves them in a state that says how its   *)
(* run ended, and leaves the queue only when it is done or given up, which  *)
(* takes MaxAttempts runs or a message nobody can run.  What a dead worker  *)
(* held is handed out again.  MessageQueue is shown to implement it.        *)
(***************************************************************************)
EXTENDS Naturals

CONSTANTS Msg, Worker, None, MaxAttempts,
          Unknown      \* messages nobody can run

VARIABLES
  status,      \* where a message is
  attempts,    \* runs since it was submitted or retried
  hand,        \* the message each worker is running
  back         \* the workers whose run has come back

vars == <<status, attempts, hand, back>>

Ended == {"DONE", "DEAD_LETTER"}

Init ==
  /\ status = [m \in Msg |-> "NONE"]
  /\ attempts = [m \in Msg |-> 0]
  /\ hand = [w \in Worker |-> None]
  /\ back = {}

HasChance(m) == attempts[m] < MaxAttempts

\* What becomes of a message whose run did not come back: another run, or none.
Again(m) == HasChance(m) /\ status'[m] = "PENDING"
Never(m) == (~HasChance(m) \/ m \in Unknown) /\ status'[m] = "DEAD_LETTER"

\* No message but those of M moves.
OnlyMoves(M) ==
  /\ DOMAIN status' = Msg
  /\ \A m \in Msg \ M : status'[m] = status[m]

Submit(m) ==
  /\ status[m] = "NONE"
  /\ status' = [status EXCEPT ![m] = "PENDING"]
  /\ UNCHANGED <<attempts, hand, back>>

\* A free worker takes a message that waits: nobody has it.
Take(w, m) ==
  /\ hand[w] = None /\ status[m] = "PENDING" /\ HasChance(m)
  /\ \A v \in Worker : hand[v] # m
  /\ status' = [status EXCEPT ![m] = "CLAIMED"]
  /\ attempts' = [attempts EXCEPT ![m] = @ + 1]
  /\ hand' = [hand EXCEPT ![w] = m]
  /\ UNCHANGED back

ComeBack(w) ==
  /\ hand[w] # None /\ hand[w] \notin Unknown
  /\ w \notin back /\ back' = back \cup {w}
  /\ UNCHANGED <<status, attempts, hand>>

\* The worker puts its message down and says how the run ended.
PutDown(w) ==
  /\ hand[w] # None /\ status[hand[w]] = "CLAIMED"
  /\ hand' = [hand EXCEPT ![w] = None]
  /\ back' = back \ {w}
  /\ OnlyMoves({hand[w]})
  /\ IF w \in back THEN status'[hand[w]] = "DONE" ELSE Again(hand[w]) \/ Never(hand[w])
  /\ UNCHANGED attempts

\* The worker dies, and its message is nobody's.
Drop(w) ==
  /\ hand[w] # None
  /\ hand' = [hand EXCEPT ![w] = None]
  /\ back' = back \ {w}
  /\ UNCHANGED <<status, attempts>>

\* Messages taken by workers that have died are handed out again.
Recover(M) ==
  /\ \A m \in M : status[m] = "CLAIMED" /\ \A w \in Worker : hand[w] # m
  /\ OnlyMoves(M)
  /\ \A m \in M : Again(m) \/ Never(m)
  /\ UNCHANGED <<attempts, hand, back>>

\* An operator asks for what has ended to be run afresh.
Retry(m) ==
  /\ status[m] \in Ended
  /\ status' = [status EXCEPT ![m] = "PENDING"]
  /\ attempts' = [attempts EXCEPT ![m] = 0]
  /\ UNCHANGED <<hand, back>>

\* Nothing is forgotten before it has ended.
Forget(M) ==
  /\ \A m \in M : status[m] \in Ended
  /\ status' = [m \in Msg |-> IF m \in M THEN "GONE" ELSE status[m]]
  /\ UNCHANGED <<attempts, hand, back>>

Next ==
  \/ \E m \in Msg : Submit(m) \/ Retry(m)
  \/ \E w \in Worker : ComeBack(w) \/ PutDown(w) \/ Drop(w) \/ \E m \in Msg : Take(w, m)
  \/ \E M \in SUBSET Msg : Recover(M) \/ Forget(M)

Spec == Init /\ [][Next]_vars
=============================================================================
