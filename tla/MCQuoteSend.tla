----------------------------- MODULE MCQuoteSend -----------------------------
EXTENDS QuoteSend

\* Who may let a price pass, with nothing written: one request and two prices
\* to approve, and two requests about one.  And what sends leave behind, with
\* prices nobody has to approve: three rows, and three faults on the way to two.
MCSettings ==
  {[prices |-> 1..3, floor |-> 3, requests |-> 1, rows |-> 0, faults |-> 0],
   [prices |-> 1..2, floor |-> 2, requests |-> 2, rows |-> 0, faults |-> 0],
   [prices |-> 1..2, floor |-> 1, requests |-> 1, rows |-> 3, faults |-> 2],
   [prices |-> 1..2, floor |-> 1, requests |-> 0, rows |-> 2, faults |-> 3]}
=============================================================================
