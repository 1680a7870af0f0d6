--------------------------- MODULE MCMessageQueue ---------------------------
(* The instances of MessageQueue that TLC explores.                           *)
EXTENDS MessageQueue, TLC

CONSTANTS m1, m2, m3, k, p1, p2

\* Two messages for one piece of work and one, m3, enqueued without a dedupe key.
MCKeyOf == [m \in Msg |-> IF m = m3 THEN NoKey ELSE k]

\* One piece of work, enqueued over and over.
MCSameWork == [m \in Msg |-> k]

\* Workers are alike, producers are, and so are the messages with a handler.
Alike == Permutations(Worker) \cup Permutations(Producer) \cup Permutations({m1, m2})
=============================================================================
