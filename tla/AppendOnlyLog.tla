--------------------------- MODULE AppendOnlyLog ---------------------------
(***************************************************************************)
(* What an audit trail promises: a sequence of changes to which a committed *)
(* transaction adds its own, at the end, all or nothing, each change once.  *)
(* AuditChain is shown to implement it.                                     *)
(***************************************************************************)
EXTENDS Naturals, Sequences

CONSTANT Change
VARIABLE log

Init == log = <<>>

\* Somebody's changes are recorded together, none of them a second time.
Record ==
  /\ Len(log) < Len(log')
  /\ SubSeq(log', 1, Len(log)) = log
  /\ \A i, j \in DOMAIN log' : log'[i] = log'[j] => i = j
  /\ \A i \in DOMAIN log' : log'[i] \in Change

Spec == Init /\ [][Record]_log
=============================================================================
