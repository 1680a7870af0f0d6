----------------------------- MODULE AuditChain -----------------------------
(***************************************************************************)
(* One tenant's audit chain, app/trust/audit.py: transactions that make a   *)
(* change and append its entry, the unique constraints and the head anchor  *)
(* they contend for, and the verification that walks the chain.             *)
(*                                                                          *)
(* The database is PostgreSQL at READ COMMITTED: a statement sees what was  *)
(* committed when it began, an insert waits for the transaction that holds  *)
(* the same key and is refused if that one commits.  SQLite, where appends  *)
(* queue on the write lock, allows a subset of these behaviours.            *)
(*                                                                          *)
(* An entry's hash is an HMAC over its body, which holds prev_hash and what *)
(* was done; the change itself stands for it.                               *)
(***************************************************************************)
EXTENDS Integers, FiniteSets

CONSTANTS
  Txn,          \* request threads that audit what they do
  Verifier,     \* requests that verify the chain
  Change,       \* audited changes, each made once
  GENESIS,      \* the prev_hash of the first entry
  MAX_ATTEMPTS,
  PerTxn        \* bound on the changes of one transaction

ASSUME AuditAssumption ==
  /\ GENESIS \notin Change
  /\ MAX_ATTEMPTS \in Nat \ {0}
  /\ PerTxn \in Nat \ {0}

Hash  == Change \cup {GENESIS}
Entry == [seq : Nat \ {0}, prev : Hash, hash : Change]
ChainHead == [seq : Nat, hash : Hash]

\* What the head of an empty chain counts as, and the anchor before it has a row.
Empty == [seq |-> 0, hash |-> GENESIS]

VARIABLES
  entries,   \* audit_entries, committed
  anchor,    \* audit_chain_heads, committed; Empty while there is no row
  stands,    \* changes that are committed
  pc,
  made,      \* the transaction's own changes, uncommitted
  pend,      \* its uncommitted entries
  moved,     \* where it has moved the anchor
  doing,     \* the change append is placing
  head,      \* the head append read inside its savepoint
  losses,    \* positions this append has lost
  walked,    \* the rows a verification has read
  verdict    \* what it has answered

txn  == <<pc, made, pend, moved, doing, head, losses>>
read == <<walked, verdict>>
vars == <<entries, anchor, stands, txn, read>>

\* _head: the highest-numbered entry of a set of rows.
HeadOf(rows) ==
  IF rows = {} THEN Empty
  ELSE LET last == CHOOSE e \in rows : \A f \in rows : f.seq <= e.seq
       IN  [seq |-> last.seq, hash |-> last.hash]

TypeOK ==
  /\ entries \in SUBSET Entry
  /\ anchor \in ChainHead
  /\ stands \in SUBSET Change
  /\ pc \in [Txn -> {"idle", "open", "reading", "writing", "failed"}]
  /\ made \in [Txn -> SUBSET Change]
  /\ pend \in [Txn -> SUBSET Entry]
  /\ moved \in [Txn -> ChainHead]
  /\ doing \in [Txn -> Hash]
  /\ head \in [Txn -> ChainHead]
  /\ losses \in [Txn -> 0..MAX_ATTEMPTS]
  /\ \A t \in Txn : pc[t] \in {"reading", "writing"} => losses[t] < MAX_ATTEMPTS
  /\ walked \in [Verifier -> SUBSET Entry]
  /\ verdict \in [Verifier -> {"none", "walking", "ok", "BROKEN",
                               "TRUNCATED"}]

Init ==
  /\ entries = {} /\ anchor = Empty /\ stands = {}
  /\ pc = [t \in Txn |-> "idle"]
  /\ made = [t \in Txn |-> {}]
  /\ pend = [t \in Txn |-> {}]
  /\ moved = [t \in Txn |-> Empty]
  /\ doing = [t \in Txn |-> GENESIS]
  /\ head = [t \in Txn |-> Empty]
  /\ losses = [t \in Txn |-> 0]
  /\ walked = [v \in Verifier |-> {}]
  /\ verdict = [v \in Verifier |-> "none"]
-----------------------------------------------------------------------------
(* The caller's transaction, and audit.append inside it.                   *)

Untouched == Change \ (stands \cup UNION {made[t] : t \in Txn})

\* The caller changes something and calls append, which opens a savepoint.
Begin(t, c) ==
  /\ pc[t] \in {"idle", "open"} /\ c \in Untouched
  /\ Cardinality(made[t]) < PerTxn
  /\ made' = [made EXCEPT ![t] = @ \cup {c}]
  /\ doing' = [doing EXCEPT ![t] = c]
  /\ losses' = [losses EXCEPT ![t] = 0]
  /\ pc' = [pc EXCEPT ![t] = "reading"]
  /\ UNCHANGED <<entries, anchor, stands, pend, moved, head, read>>

\* The head as this statement sees it: what is committed, and its own rows.
ReadHead(t) ==
  /\ pc[t] = "reading"
  /\ head' = [head EXCEPT ![t] = HeadOf(entries \cup pend[t])]
  /\ pc' = [pc EXCEPT ![t] = "writing"]
  /\ UNCHANGED <<entries, anchor, stands, made, pend, moved, doing, losses, read>>

NewEntry(t) == [seq |-> head[t].seq + 1, prev |-> head[t].hash, hash |-> doing[t]]

\* mutant: the unique constraints are gone
NeverRefused(e) == FALSE

\* uq_audit_entry_org_seq and uq_audit_entry_org_prev, over committed rows.
Refused(e) == \E f \in entries : f.seq = e.seq \/ f.prev = e.prev

\* mutant: the head is read FOR UPDATE, and readers hold one another up
WaitsForReaders(t) == \E u \in Txn \ {t} : pend[u] # {} \/ pc[u] = "writing"

\* The insert waits while another transaction holds rows of this chain: it holds
\* the same position, and the anchor's row.
Waits(t) == \E u \in Txn \ {t} : pend[u] # {}

\* mutant: the anchor is left to the next append
AnchorBehind(t, e) == [seq |-> head[t].seq, hash |-> head[t].hash]

\* _move_head.
MovedTo(t, e) == [seq |-> e.seq, hash |-> e.hash]

\* The flush succeeds: entry and anchor move together, and the savepoint is
\* released into the caller's transaction.
Place(t) ==
  /\ pc[t] = "writing" /\ ~Waits(t) /\ ~Refused(NewEntry(t))
  /\ pend' = [pend EXCEPT ![t] = @ \cup {NewEntry(t)}]
  /\ moved' = [moved EXCEPT ![t] = MovedTo(t, NewEntry(t))]
  /\ doing' = [doing EXCEPT ![t] = GENESIS]
  /\ head' = [head EXCEPT ![t] = Empty]
  /\ losses' = [losses EXCEPT ![t] = 0]
  /\ pc' = [pc EXCEPT ![t] = "open"]
  /\ UNCHANGED <<entries, anchor, stands, made, read>>

\* mutant: append gives up quietly and the caller goes on
GiveUpQuietly(t) == "open"

\* AuditAppendFailed after the last attempt: the caller must not commit.
AfterLoss(t) == IF losses[t] + 1 = MAX_ATTEMPTS THEN "failed" ELSE "reading"

\* IntegrityError: the savepoint is rolled back, and the head is read again.  A
\* committed row refuses at once, whoever else is writing.
Lose(t) ==
  /\ pc[t] = "writing" /\ Refused(NewEntry(t))
  /\ head' = [head EXCEPT ![t] = Empty]
  /\ losses' = [losses EXCEPT ![t] = @ + 1]
  /\ pc' = [pc EXCEPT ![t] = AfterLoss(t)]
  /\ UNCHANGED <<entries, anchor, stands, made, pend, moved, doing, read>>

\* The transaction is over, one way or the other.
Close(t) ==
  /\ pc' = [pc EXCEPT ![t] = "idle"]
  /\ made' = [made EXCEPT ![t] = {}]
  /\ pend' = [pend EXCEPT ![t] = {}]
  /\ moved' = [moved EXCEPT ![t] = Empty]
  /\ doing' = [doing EXCEPT ![t] = GENESIS]
  /\ head' = [head EXCEPT ![t] = Empty]
  /\ losses' = [losses EXCEPT ![t] = 0]

\* The caller commits, with append as the last act of what it did.
Commit(t) ==
  /\ pc[t] = "open"
  /\ entries' = entries \cup pend[t]
  /\ anchor' = IF pend[t] = {} THEN anchor ELSE moved[t]
  /\ stands' = stands \cup made[t]
  /\ Close(t)
  /\ UNCHANGED read

\* The caller fails, append raises, or the process dies: everything goes.
Abort(t) ==
  /\ pc[t] # "idle"
  /\ Close(t)
  /\ UNCHANGED <<entries, anchor, stands, read>>
-----------------------------------------------------------------------------
(* audit.verify: the rows in one statement, the anchor in the next.        *)

\* The walk finds positions 1, 2, 3..., each entry naming the one before it.
\* Forks are seen as broken links: two entries that name one predecessor cannot
\* both follow it.
Linked(rows) ==
  /\ \A e, f \in rows : e.seq = f.seq => e = f
  /\ \A e \in rows : \/ e.seq = 1 /\ e.prev = GENESIS
                     \/ \E f \in rows : f.seq = e.seq - 1 /\ f.hash = e.prev

\* mutant: the rows alone are proof enough
WalkOnly(rows, top) == IF Linked(rows) THEN "ok" ELSE "BROKEN"

\* "BROKEN" stands for SEQUENCE, LINK and FORK.  An edited row breaks the
\* signature of its own body, which a hash that is the change cannot show.
Verdict(rows, top) ==
  CASE ~Linked(rows) -> "BROKEN"
    [] Linked(rows) /\ top # HeadOf(rows) -> "TRUNCATED"
    [] Linked(rows) /\ top = HeadOf(rows) -> "ok"

Walk(v) ==
  /\ verdict[v] # "walking"
  /\ walked' = [walked EXCEPT ![v] = entries]
  /\ verdict' = [verdict EXCEPT ![v] = "walking"]
  /\ UNCHANGED <<entries, anchor, stands, txn>>

Judge(v) ==
  /\ verdict[v] = "walking"
  /\ verdict' = [verdict EXCEPT ![v] = Verdict(walked[v], anchor)]
  /\ walked' = [walked EXCEPT ![v] = {}]
  /\ UNCHANGED <<entries, anchor, stands, txn>>
-----------------------------------------------------------------------------
AppendStep(t) == ReadHead(t) \/ Place(t) \/ Lose(t)

Next ==
  \/ \E t \in Txn : \/ \E c \in Change : Begin(t, c)
                    \/ AppendStep(t) \/ Commit(t) \/ Abort(t)
  \/ \E v \in Verifier : Walk(v) \/ Judge(v)

Spec == Init /\ [][Next]_vars

\* A request that is running goes on, and once append has answered, it ends.
\* Strong, since an insert that waits is granted the lock when its holder ends:
\* the database keeps those who wait in a queue.
Fairness ==
  \A t \in Txn :
    /\ SF_vars(AppendStep(t))
    /\ WF_vars(pc[t] \in {"open", "failed"} /\ (Commit(t) \/ Abort(t)))

FairSpec == Spec /\ Fairness
-----------------------------------------------------------------------------
(* Properties.                                                             *)

\* Whatever races were lost and whoever rolled back, the committed rows and the
\* committed anchor are a chain verify accepts.
ChainVerifies == Verdict(entries, anchor) = "ok"

\* A change stands exactly when its entry does.
ChangeIffEntry == stands = {e.hash : e \in entries}

\* Removing rows, one or many, the newest or all of them, is seen.
RemovalSeen ==
  \A kept \in SUBSET entries : kept # entries => Verdict(kept, anchor) # "ok"

\* The chain in order, and the promise it implements.
ChainLog ==
  [n \in 1..HeadOf(entries).seq |-> (CHOOSE e \in entries : e.seq = n).hash]

Log == INSTANCE AppendOnlyLog WITH log <- ChainLog

IsAppendOnly == Log!Spec

\* An append that waits or loses comes to an end, in transactions that audit
\* twice too: placed, refused, or rolled back.  Nobody waits in a circle.
AppendEnds == \A t \in Txn : pc[t] = "writing" ~> pc[t] \in {"open", "failed", "idle"}

\* What verify answers of a chain nobody touched is never BROKEN, though the chain
\* grows while it is walked: ok vouches for every entry committed by the time it
\* answers, and TRUNCATED means that an append was committed after the walk, since
\* verify reads the anchor in a statement of its own.
VerdictIsTrue ==
  [][\A v \in Verifier : verdict[v] = "walking" /\ verdict'[v] # "walking" =>
       verdict'[v] = IF walked[v] = entries THEN "ok" ELSE "TRUNCATED"]_vars
=============================================================================
