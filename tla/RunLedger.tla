----------------------------- MODULE RunLedger -----------------------------
(***************************************************************************)
(* What the history of pulls promises: a run is opened where none is active *)
(* and somebody answers for it from then on; it is queued, then running,    *)
(* then it has a verdict, which stands; and it is given up only when nobody *)
(* answers for it any more.  SyncJobs, in threads, is shown to implement it.*)
(***************************************************************************)

CONSTANTS Run, None,
          Target       \* what a run pulls: one company, or all of them

VARIABLES
  status,      \* where a run is
  conn,        \* what it pulls
  alive        \* the runs somebody answers for

vars == <<status, conn, alive>>

Ongoing   == {r \in Run : status[r] \in {"QUEUED", "RUNNING"}}
Abandoned == Ongoing \ alive

Init ==
  /\ status = [r \in Run |-> "NONE"]
  /\ conn = [r \in Run |-> None]
  /\ alive = {}

\* What the rows say once the runs of given have been given up.
GivenUp(given) == [r \in Run |-> IF r \in given THEN "FAILED" ELSE status[r]]

\* A run is opened, in place of abandoned ones if need be.
Open(r, c, given) ==
  /\ status[r] = "NONE"
  /\ \A q \in Ongoing \ given : conn[q] # c
  /\ status' = [GivenUp(given) EXCEPT ![r] = "QUEUED"]
  /\ conn' = [conn EXCEPT ![r] = c]
  /\ alive' = alive \cup {r}

GiveUp(given) == status' = GivenUp(given) /\ UNCHANGED <<conn, alive>>

Begin(r) ==
  /\ r \in alive /\ status[r] = "QUEUED"
  /\ status' = [status EXCEPT ![r] = "RUNNING"]
  /\ UNCHANGED <<conn, alive>>

End(r, verdict) ==
  /\ r \in alive /\ status[r] = "RUNNING"
  /\ status' = [status EXCEPT ![r] = verdict]
  /\ alive' = alive \ {r}
  /\ UNCHANGED conn

\* Whoever answered for these runs has died.
Die(lost) == alive' = alive \ lost /\ UNCHANGED <<status, conn>>

Next ==
  \/ \E given \in SUBSET Abandoned :
       GiveUp(given) \/ \E r \in Run, c \in Target : Open(r, c, given)
  \/ \E r \in Run : Begin(r) \/ \E verdict \in {"OK", "FAILED"} : End(r, verdict)
  \/ \E lost \in SUBSET alive : Die(lost)

Spec == Init /\ [][Next]_vars
=============================================================================
