-------------------------- MODULE AuditChainProofs --------------------------
(***************************************************************************)
(* What AuditChain promises for any number of transactions, verifications   *)
(* and changes, and any number of attempts.                                 *)
(*                                                                          *)
(* The argument: rows that are a chain up to a head stay one when the next  *)
(* position is added, and the unique constraint refuses every position but  *)
(* the next.  Since an insert waits for the uncommitted rows of others, at  *)
(* most one transaction has rows of its own, and they continue what is      *)
(* committed; committing them is committing a longer chain and its head.    *)
(***************************************************************************)
EXTENDS AuditChain, Sequences, WellFoundedInduction, TLAPS

USE AuditAssumption

\* The rows are positions 1..top.seq, each naming the one before, and top is the last.
Chain(rows, top) ==
  /\ rows \subseteq Entry /\ top \in ChainHead
  /\ \A e, f \in rows : e.seq = f.seq => e = f
  /\ \A e \in rows : e.seq <= top.seq
  /\ \A n \in 1..top.seq : \E e \in rows : e.seq = n
  /\ \A e \in rows : \/ e.seq = 1 /\ e.prev = GENESIS
                     \/ \E f \in rows : f.seq = e.seq - 1 /\ f.hash = e.prev
  /\ IF top.seq = 0 THEN top = Empty
     ELSE \E e \in rows : e.seq = top.seq /\ e.hash = top.hash

\* _head reads the end of a chain.
LEMMA HeadIsTop ==
  ASSUME NEW rows, NEW top, Chain(rows, top)
  PROVE  HeadOf(rows) = top
<1>1. CASE top.seq = 0
  <2>1. rows = {}
    BY <1>1 DEF Chain, Entry, ChainHead
  <2> QED
    BY <1>1, <2>1 DEF Chain, HeadOf
<1>2. CASE top.seq # 0
  <2>1. PICK e \in rows : e.seq = top.seq /\ e.hash = top.hash
    BY <1>2 DEF Chain
  <2>2. \A f \in rows : f.seq <= e.seq
    BY <2>1 DEF Chain
  <2>3. \A d \in rows : (\A f \in rows : f.seq <= d.seq) => d = e
    BY <2>1, <2>2 DEF Chain, Entry
  <2>4. (CHOOSE d \in rows : \A f \in rows : f.seq <= d.seq) = e
    BY <2>2, <2>3
  <2>5. HeadOf(rows) = [seq |-> e.seq, hash |-> e.hash]
    BY <2>1, <2>4 DEF HeadOf
  <2> QED
    BY <2>1, <2>5 DEF Chain, ChainHead
<1> QED
  BY <1>1, <1>2

\* verify accepts a chain with the head it ends in.
LEMMA ChainOk ==
  ASSUME NEW rows, NEW top, Chain(rows, top)
  PROVE  Verdict(rows, top) = "ok"
<1>1. Linked(rows)
  BY DEF Chain, Linked
<1> QED
  BY <1>1, HeadIsTop DEF Verdict

\* append: a row at the next position, naming the head, makes a longer chain.
LEMMA ChainGrows ==
  ASSUME NEW rows, NEW top, Chain(rows, top), NEW c \in Change,
         NEW e, e = [seq |-> top.seq + 1, prev |-> top.hash, hash |-> c]
  PROVE  Chain(rows \cup {e}, [seq |-> e.seq, hash |-> e.hash])
<1> DEFINE more == rows \cup {e}
           last == [seq |-> e.seq, hash |-> e.hash]
<1>1. top.seq \in Nat /\ top.hash \in Hash /\ e \in Entry /\ last \in ChainHead
  BY DEF Chain, ChainHead, Entry, Hash
<1>2. more \subseteq Entry
  BY <1>1 DEF Chain
<1>3. \A f \in rows : f.seq <= top.seq /\ f.seq \in Nat
  BY DEF Chain, Entry
<1>4. \A f, g \in more : f.seq = g.seq => f = g
  BY <1>1, <1>3 DEF Chain
<1>5. \A f \in more : f.seq <= last.seq
  BY <1>1, <1>3
<1>6. \A n \in 1..last.seq : \E f \in more : f.seq = n
  <2> SUFFICES ASSUME NEW n \in 1..last.seq PROVE \E f \in more : f.seq = n
    OBVIOUS
  <2>1. CASE n = e.seq
    BY <2>1
  <2>2. CASE n # e.seq
    <3>1. n \in 1..top.seq
      BY <1>1, <2>2
    <3> QED
      BY <3>1 DEF Chain
  <2> QED
    BY <2>1, <2>2
<1>7. \/ e.seq = 1 /\ e.prev = GENESIS
      \/ \E f \in more : f.seq = e.seq - 1 /\ f.hash = e.prev
  <2>1. CASE top.seq = 0
    BY <2>1 DEF Chain, Empty
  <2>2. CASE top.seq # 0
    <3>1. PICK f \in rows : f.seq = top.seq /\ f.hash = top.hash
      BY <2>2 DEF Chain
    <3> QED
      BY <1>1, <3>1
  <2> QED
    BY <2>1, <2>2
<1>8. \A g \in more : \/ g.seq = 1 /\ g.prev = GENESIS
                      \/ \E f \in more : f.seq = g.seq - 1 /\ f.hash = g.prev
  BY <1>7 DEF Chain
<1>9. last.seq # 0 /\ \E f \in more : f.seq = last.seq /\ f.hash = last.hash
  BY <1>1
<1> QED
  BY <1>1, <1>2, <1>4, <1>5, <1>6, <1>8, <1>9 DEF Chain

\* The order of the positions, as the library's well-foundedness facts want it.
Below == {ss \in Nat \X Nat : ss[1] < ss[2]}

\* A set of positions has a least one.
LEMMA LeastNat ==
  ASSUME NEW T \in SUBSET Nat, T # {}
  PROVE  \E n \in T : \A k \in T : n <= k
<1>1. IsWellFoundedOn(Below, Nat)
  BY NatLessThanWellFounded DEF OpToRel, Below
<1>2. PICK n \in T : \A y \in T : ~(<<y, n>> \in Below)
  BY <1>1, WFMin
<1>3. \A k \in Nat : k < n => <<k, n>> \in Below
  BY DEF Below
<1>4. \A k \in T : ~(k < n)
  BY <1>2, <1>3
<1> QED
  BY <1>4

\* One that stays below a bound has a greatest: the least of its bounds.
LEMMA GreatestNat ==
  ASSUME NEW T \in SUBSET Nat, T # {}, NEW b \in Nat, \A k \in T : k <= b
  PROVE  \E n \in T : \A k \in T : k <= n
<1> DEFINE Bounds == {n \in Nat : \A k \in T : k <= n}
<1>1. PICK n \in Bounds : \A k \in Bounds : n <= k
  <2>1. Bounds \in SUBSET Nat /\ Bounds # {}
    OBVIOUS
  <2> QED
    BY <2>1, LeastNat
<1>2. n \in Nat /\ \A k \in T : k <= n
  BY <1>1
<1>3. n \in T
  <2> SUFFICES ASSUME n \notin T PROVE FALSE
    OBVIOUS
  <2>1. \A k \in T : k \in Nat /\ k < n
    BY <1>2
  <2>2. n - 1 \in Nat /\ n - 1 < n
    <3>1. PICK k \in T : TRUE
      OBVIOUS
    <3> QED
      BY ONLY <3>1, <1>2, <2>1
  <2>3. \A k \in T : k <= n - 1
    BY ONLY <1>2, <2>1
  <2>4. n - 1 \in Bounds
    BY <2>2, <2>3
  <2>5. n <= n - 1
    BY <1>1, <2>4
  <2> QED
    BY ONLY <1>2, <2>2, <2>5
<1> QED
  BY <1>2, <1>3

\* The walk is complete: rows that are linked have no gap below any of them.
LEMMA LinkedFromOne ==
  ASSUME NEW rows \in SUBSET Entry, Linked(rows), NEW e \in rows
  PROVE  \A n \in 1..e.seq : \E f \in rows : f.seq = n
<1> DEFINE Missing == {n \in Nat : n \in 1..e.seq /\ \A f \in rows : f.seq # n}
<1> SUFFICES ASSUME Missing # {} PROVE FALSE
  BY DEF Entry
<1>1. e.seq \in Nat
  BY DEF Entry
<1>2. PICK n \in Missing : \A k \in Missing : k <= n
  <2>1. Missing \in SUBSET Nat /\ \A k \in Missing : k <= e.seq
    BY <1>1
  <2> QED
    BY <1>1, <2>1, GreatestNat
<1>3. n \in Nat /\ n >= 1 /\ n <= e.seq /\ n # e.seq /\ \A f \in rows : f.seq # n
  BY <1>1, <1>2
<1>4. PICK f \in rows : f.seq = n + 1
  BY <1>1, <1>2, <1>3
<1>5. PICK g \in rows : g.seq = f.seq - 1
  BY <1>3, <1>4 DEF Linked
<1> QED
  BY <1>3, <1>4, <1>5

\* verify is sound: whatever rows it accepts, however they came to be, are a
\* chain without a gap that ends where the anchor says.
LEMMA OkIsChain ==
  ASSUME NEW rows \in SUBSET Entry, NEW top \in ChainHead, Verdict(rows, top) = "ok",
         NEW b \in Nat, \A e \in rows : e.seq <= b
  PROVE  Chain(rows, top)
<1>1. Linked(rows) /\ top = HeadOf(rows)
  BY DEF Verdict
<1>2. CASE rows = {}
  BY <1>1, <1>2 DEF HeadOf, Chain, Empty
<1>3. CASE rows # {}
  <2>1. PICK last \in rows : \A f \in rows : f.seq <= last.seq
    <3> DEFINE Seqs == {f.seq : f \in rows}
    <3>1. Seqs \in SUBSET Nat /\ Seqs # {} /\ \A k \in Seqs : k <= b
      BY <1>3 DEF Entry
    <3>2. \E n \in Seqs : \A k \in Seqs : k <= n
      BY <3>1, GreatestNat
    <3> QED
      BY <3>2
  <2>2. PICK d \in rows : /\ \A f \in rows : f.seq <= d.seq
                          /\ top = [seq |-> d.seq, hash |-> d.hash]
    BY <1>1, <1>3, <2>1 DEF HeadOf
  <2>3. d.seq \in Nat \ {0} /\ top.seq = d.seq /\ top.hash = d.hash
    BY <2>2 DEF Entry
  <2>4. \A n \in 1..top.seq : \E f \in rows : f.seq = n
    BY <1>1, <2>3, LinkedFromOne
  <2> QED
    BY <1>1, <2>2, <2>3, <2>4 DEF Chain, Linked
<1> QED
  BY <1>2, <1>3

\* verify sees the removal of any rows: what it accepts reaches from the first
\* position to the anchor's, and no other row of the chain has a place there.
LEMMA RemovalBreaks ==
  ASSUME NEW rows, NEW top, Chain(rows, top), NEW kept \in SUBSET rows,
         Verdict(kept, top) = "ok"
  PROVE  kept = rows
<1>1. /\ kept \in SUBSET Entry /\ top \in ChainHead /\ top.seq \in Nat
      /\ \A e \in kept : e.seq <= top.seq
  BY DEF Chain, ChainHead
<1>2. Chain(kept, top)
  BY <1>1, OkIsChain
<1>3. ASSUME NEW e \in rows PROVE e \in kept
  <2>1. e.seq \in 1..top.seq
    BY <1>1 DEF Chain, Entry
  <2>2. PICK f \in kept : f.seq = e.seq
    BY <1>2, <2>1 DEF Chain
  <2>3. f \in rows /\ e = f
    BY <2>2 DEF Chain
  <2> QED
    BY <2>3
<1> QED
  BY <1>3
-----------------------------------------------------------------------------
\* What is committed is a chain.  Uncommitted rows belong to one transaction and
\* continue it.  A head that was read is the end of what its reader sees, or it
\* has been overtaken by an entry that still names its place.
ChainInv ==
  /\ Chain(entries, anchor)
  /\ \A t \in Txn : pend[t] # {} => Chain(entries \cup pend[t], moved[t])
  /\ \A t, u \in Txn : t # u => pend[t] = {} \/ pend[u] = {}
  /\ \A t \in Txn : pc[t] \in {"reading", "writing"} => doing[t] \in Change
  /\ \A t \in Txn : pc[t] = "writing" =>
       IF pend[t] # {} THEN head[t] = moved[t]
       ELSE \/ head[t] = Empty
            \/ \E e \in entries : e.seq = head[t].seq /\ e.hash = head[t].hash

\* Every step keeps the types: the head of a chain is a head.
LEMMA TypeStep ==
  ASSUME TypeOK, ChainInv, [Next]_vars
  PROVE  TypeOK'
<1> USE DEF TypeOK, ChainHead, Hash, Empty, read, txn
<1>1. ASSUME NEW t \in Txn, NEW c \in Change, Begin(t, c) PROVE TypeOK'
  BY <1>1 DEF Begin
<1>2. ASSUME NEW t \in Txn, ReadHead(t) PROVE TypeOK'
  <2>1. HeadOf(entries \cup pend[t]) \in ChainHead
    <3>1. Chain(entries, anchor) /\ (pend[t] # {} => Chain(entries \cup pend[t], moved[t]))
      BY DEF ChainInv
    <3>2. CASE pend[t] = {}
      BY <3>1, <3>2, HeadIsTop
    <3>3. CASE pend[t] # {}
      BY <3>1, <3>3, HeadIsTop
    <3> QED
      BY <3>2, <3>3
  <2> QED
    BY <1>2, <2>1 DEF ReadHead
<1>3. ASSUME NEW t \in Txn, Place(t) PROVE TypeOK'
  <2>1. NewEntry(t) \in Entry /\ MovedTo(t, NewEntry(t)) \in ChainHead
    <3>1. doing[t] \in Change /\ head[t] \in ChainHead
      BY <1>3 DEF Place, ChainInv
    <3> QED
      BY <3>1 DEF NewEntry, MovedTo, Entry
  <2> QED
    BY <1>3, <2>1 DEF Place
<1>4. ASSUME NEW t \in Txn, Lose(t) PROVE TypeOK'
  <2>1. losses[t] + 1 \in 0..MAX_ATTEMPTS /\ (losses[t] + 1 # MAX_ATTEMPTS => losses[t] + 1 < MAX_ATTEMPTS)
    <3>1. pc[t] = "writing"
      BY <1>4 DEF Lose
    <3>2. losses[t] \in 0..MAX_ATTEMPTS /\ losses[t] < MAX_ATTEMPTS
      BY <3>1
    <3> QED
      BY <3>2
  <2>2. /\ losses' \in [Txn -> 0..MAX_ATTEMPTS]
        /\ pc' \in [Txn -> {"idle", "open", "reading", "writing", "failed"}]
    BY <1>4, <2>1 DEF Lose, AfterLoss
  <2>3. \A u \in Txn : pc'[u] \in {"reading", "writing"} => losses'[u] < MAX_ATTEMPTS
    BY <1>4, <2>1 DEF Lose, AfterLoss
  <2> QED
    BY <1>4, <2>2, <2>3 DEF Lose
<1>5. ASSUME NEW t \in Txn, Commit(t) PROVE TypeOK'
  BY <1>5 DEF Commit, Close
<1>6. ASSUME NEW t \in Txn, Abort(t) PROVE TypeOK'
  BY <1>6 DEF Abort, Close
<1>7. ASSUME NEW v \in Verifier, Walk(v) PROVE TypeOK'
  BY <1>7 DEF Walk
<1>8. ASSUME NEW v \in Verifier, Judge(v) PROVE TypeOK'
  BY <1>8 DEF Judge, Verdict
<1>9. CASE UNCHANGED vars
  BY <1>9 DEF vars
<1> QED
  BY <1>1, <1>2, <1>3, <1>4, <1>5, <1>6, <1>7, <1>8, <1>9 DEF Next, AppendStep

\* The position an append places its entry at is the next one.
LEMMA PlacedNext ==
  ASSUME TypeOK, ChainInv, NEW t \in Txn, Place(t)
  PROVE  Chain(entries \cup pend[t] \cup {NewEntry(t)}, MovedTo(t, NewEntry(t)))
<1>1. doing[t] \in Change
  BY DEF Place, ChainInv
<1>2. CASE pend[t] # {}
  <2>1. Chain(entries \cup pend[t], moved[t]) /\ head[t] = moved[t]
    BY <1>2 DEF ChainInv, Place
  <2> QED
    BY <1>1, <2>1, ChainGrows DEF NewEntry, MovedTo
<1>3. CASE pend[t] = {}
  <2>1. \/ head[t] = Empty
        \/ \E e \in entries : e.seq = head[t].seq /\ e.hash = head[t].hash
    BY <1>3 DEF ChainInv, Place
  <2>2. Chain(entries, anchor) /\ head[t] \in ChainHead /\ anchor \in ChainHead
    BY DEF ChainInv, TypeOK
  <2>3. head[t].seq <= anchor.seq
    BY <2>1, <2>2 DEF Chain, Empty, ChainHead
  <2>4. \A e \in entries : e.seq # head[t].seq + 1
    BY DEF Place, Refused, NewEntry
  <2>5. head[t].seq = anchor.seq
    <3>1. ASSUME head[t].seq + 1 <= anchor.seq PROVE FALSE
      <4>1. head[t].seq + 1 \in 1..anchor.seq
        BY <2>2, <3>1 DEF ChainHead
      <4> QED
        BY <2>2, <2>4, <4>1 DEF Chain
    <3> QED
      BY <2>2, <2>3, <3>1 DEF ChainHead
  <2>6. head[t] = anchor
    <3>1. CASE anchor.seq = 0
      <4>1. entries = {}
        BY <2>2, <3>1 DEF Chain, Entry
      <4> QED
        BY <2>1, <2>2, <3>1, <4>1 DEF Chain
    <3>2. CASE anchor.seq # 0
      <4>1. head[t].hash = anchor.hash
        BY <2>1, <2>2, <2>5, <3>2 DEF Chain, Empty
      <4> QED
        BY <2>2, <2>5, <4>1 DEF ChainHead
    <3> QED
      BY <3>1, <3>2
  <2> QED
    BY <1>1, <1>3, <2>2, <2>6, ChainGrows DEF NewEntry, MovedTo
<1> QED
  BY <1>2, <1>3

\* Every step keeps rows and anchor, committed or not, a chain.
LEMMA ChainStep ==
  ASSUME TypeOK, ChainInv, [Next]_vars
  PROVE  ChainInv'
<1> USE DEF read, txn
<1>1. ASSUME NEW t \in Txn, NEW c \in Change, Begin(t, c) PROVE ChainInv'
  BY <1>1 DEF Begin, ChainInv, TypeOK
<1>2. ASSUME NEW t \in Txn, ReadHead(t) PROVE ChainInv'
  <2>1. pc'[t] = "writing" /\ head'[t] = HeadOf(entries \cup pend[t])
    BY <1>2 DEF ReadHead, TypeOK
  <2>2. CASE pend[t] # {}
    <3>1. head'[t] = moved[t]
      BY <2>1, <2>2, HeadIsTop DEF ChainInv
    <3> QED
      BY <1>2, <2>2, <3>1 DEF ReadHead, ChainInv, TypeOK
  <2>3. CASE pend[t] = {}
    <3>1. head'[t] = anchor
      BY <2>1, <2>3, HeadIsTop DEF ChainInv
    <3>2. head'[t] = Empty \/ \E e \in entries : e.seq = head'[t].seq /\ e.hash = head'[t].hash
      BY <3>1 DEF ChainInv, Chain
    <3> QED
      BY <1>2, <2>3, <3>2 DEF ReadHead, ChainInv, TypeOK
  <2> QED
    BY <2>2, <2>3
<1>3. ASSUME NEW t \in Txn, Place(t) PROVE ChainInv'
  <2>1. Chain(entries \cup pend'[t], moved'[t])
    BY <1>3, PlacedNext DEF Place, TypeOK
  <2>2. \A u \in Txn : u # t => pend[u] = {} /\ pend'[u] = {}
    BY <1>3 DEF Place, Waits, TypeOK
  <2> QED
    BY <1>3, <2>1, <2>2 DEF Place, ChainInv, TypeOK
<1>4. ASSUME NEW t \in Txn, Lose(t) PROVE ChainInv'
  BY <1>4 DEF Lose, AfterLoss, ChainInv, TypeOK
<1>5. ASSUME NEW t \in Txn, Commit(t) PROVE ChainInv'
  <2>1. Chain(entries', anchor')
    BY <1>5 DEF Commit, ChainInv
  <2>2. \A u \in Txn : pend'[u] # {} => u # t /\ pend'[u] = pend[u] /\ pend[t] = {}
    BY <1>5 DEF Commit, Close, ChainInv, TypeOK
  <2>3. \A u \in Txn : pend'[u] # {} => entries' = entries /\ moved'[u] = moved[u]
    BY <1>5, <2>2 DEF Commit, Close, TypeOK
  <2>4. \A u \in Txn : pend'[u] # {} => Chain(entries' \cup pend'[u], moved'[u])
    BY <2>2, <2>3 DEF ChainInv
  <2>5. ASSUME NEW u \in Txn, pc'[u] = "writing"
        PROVE  IF pend'[u] # {} THEN head'[u] = moved'[u]
               ELSE \/ head'[u] = Empty
                    \/ \E e \in entries' : e.seq = head'[u].seq /\ e.hash = head'[u].hash
    <3>1. u # t /\ pc[u] = "writing" /\ head'[u] = head[u] /\ pend'[u] = pend[u] /\ moved'[u] = moved[u]
      BY <1>5, <2>5 DEF Commit, Close, TypeOK
    <3>2. entries \subseteq entries'
      BY <1>5 DEF Commit
    <3> QED
      BY <3>1, <3>2 DEF ChainInv
  <2>6. /\ \A u, w \in Txn : u # w => pend'[u] = {} \/ pend'[w] = {}
        /\ \A u \in Txn : pc'[u] \in {"reading", "writing"} => doing'[u] \in Change
    BY <1>5 DEF Commit, Close, ChainInv, TypeOK
  <2> QED
    BY <2>1, <2>4, <2>5, <2>6 DEF ChainInv
<1>6. ASSUME NEW t \in Txn, Abort(t) PROVE ChainInv'
  BY <1>6 DEF Abort, Close, ChainInv, TypeOK
<1>7. ASSUME NEW v \in Verifier, Walk(v) \/ Judge(v) PROVE ChainInv'
  BY <1>7 DEF Walk, Judge, ChainInv
<1>8. CASE UNCHANGED vars
  BY <1>8 DEF vars, ChainInv
<1> QED
  BY <1>1, <1>2, <1>3, <1>4, <1>5, <1>6, <1>7, <1>8 DEF Next, AppendStep

\* Types and chains are inductive together.
LEMMA ChainInductive == Spec => [](TypeOK /\ ChainInv)
<1>1. Init => TypeOK /\ ChainInv
  BY DEF Init, TypeOK, ChainInv, Chain, Empty, ChainHead, Hash
<1>2. TypeOK /\ ChainInv /\ [Next]_vars => (TypeOK /\ ChainInv)'
  BY TypeStep, ChainStep
<1> QED
  BY <1>1, <1>2, PTL DEF Spec

\* Every variable stays in its range, and an append that is still trying has
\* tries left.
THEOREM TypeCorrect == Spec => []TypeOK
  BY ChainInductive, PTL

\* audit.append: at every instant the committed rows and anchor are a chain that
\* verify accepts.
THEOREM AlwaysVerifies == Spec => []ChainVerifies
<1>1. ChainInv => ChainVerifies
  BY ChainOk DEF ChainInv, ChainVerifies
<1> QED
  BY <1>1, ChainInductive, PTL

\* audit.verify: no committed entries, one or many, the newest or all of them, can
\* be removed unseen.
THEOREM RemovalIsSeen == Spec => []RemovalSeen
<1>1. ChainInv => RemovalSeen
  BY RemovalBreaks DEF ChainInv, RemovalSeen
<1> QED
  BY <1>1, ChainInductive, PTL
-----------------------------------------------------------------------------
\* The changes of a set of entries.
Of(rows) == {e.hash : e \in rows}

\* What a transaction has made is what it has entries for, and the change whose
\* entry it is placing.
BookInv ==
  /\ stands = Of(entries)
  /\ \A t \in Txn : made[t] = IF pc[t] \in {"reading", "writing", "failed"}
                              THEN Of(pend[t]) \cup {doing[t]} ELSE Of(pend[t])

\* Entries and changes keep together.
LEMMA BookInductive == Spec => []BookInv
<1>1. Init => BookInv
  BY DEF Init, BookInv, Of
<1>2. TypeOK /\ BookInv /\ [Next]_vars => BookInv'
  <2> SUFFICES ASSUME TypeOK, BookInv, [Next]_vars PROVE BookInv'
    OBVIOUS
  <2> USE DEF read, txn, BookInv, TypeOK
  <2>1. ASSUME NEW t \in Txn, NEW c \in Change, Begin(t, c) PROVE BookInv'
    BY <2>1 DEF Begin
  <2>2. ASSUME NEW t \in Txn, ReadHead(t) PROVE BookInv'
    BY <2>2 DEF ReadHead
  <2>3. ASSUME NEW t \in Txn, Place(t) PROVE BookInv'
    <3>1. Of(pend'[t]) = Of(pend[t]) \cup {doing[t]}
      BY <2>3 DEF Place, Of, NewEntry
    <3> QED
      BY <2>3, <3>1 DEF Place
  <2>4. ASSUME NEW t \in Txn, Lose(t) PROVE BookInv'
    BY <2>4 DEF Lose, AfterLoss
  <2>5. ASSUME NEW t \in Txn, Commit(t) PROVE BookInv'
    <3>1. Of(entries') = Of(entries) \cup Of(pend[t]) /\ Of({}) = {}
      BY <2>5 DEF Commit, Of
    <3> QED
      BY <2>5, <3>1 DEF Commit, Close
  <2>6. ASSUME NEW t \in Txn, Abort(t) PROVE BookInv'
    <3>1. Of({}) = {}
      BY DEF Of
    <3> QED
      BY <2>6, <3>1 DEF Abort, Close
  <2>7. ASSUME NEW v \in Verifier, Walk(v) \/ Judge(v) PROVE BookInv'
    BY <2>7 DEF Walk, Judge
  <2>8. CASE UNCHANGED vars
    BY <2>8 DEF vars
  <2> QED
    BY <2>1, <2>2, <2>3, <2>4, <2>5, <2>6, <2>7, <2>8 DEF Next, AppendStep
<1> QED
  BY <1>1, <1>2, TypeCorrect, PTL DEF Spec

\* append, "the entry and the change then commit together": whoever loses, rolls
\* back or dies, a change stands exactly when its entry does.
THEOREM NothingUnaudited == Spec => []ChangeIffEntry
<1>1. BookInv => ChangeIffEntry
  BY DEF BookInv, ChangeIffEntry, Of
<1> QED
  BY <1>1, BookInductive, PTL
-----------------------------------------------------------------------------
\* What a verification has walked is linked, and part of what is there now.
WalkInv == \A v \in Verifier : verdict[v] = "walking" =>
             Linked(walked[v]) /\ walked[v] \subseteq entries

\* Nothing is removed, so what was walked stays part of the chain.
LEMMA WalkStep ==
  ASSUME TypeOK, ChainInv, WalkInv, [Next]_vars
  PROVE  WalkInv'
<1>1. ASSUME NEW v \in Verifier, Walk(v) PROVE WalkInv'
  <2>1. Linked(entries)
    BY DEF ChainInv, Chain, Linked
  <2> QED
    BY <1>1, <2>1 DEF Walk, WalkInv, TypeOK
<1>2. ASSUME NEW v \in Verifier, Judge(v) PROVE WalkInv'
  <2>1. verdict'[v] # "walking"
    BY <1>2 DEF Judge, Verdict, TypeOK
  <2> QED
    BY <1>2, <2>1 DEF Judge, WalkInv, TypeOK
<1>3. ASSUME UNCHANGED read, entries \subseteq entries' PROVE WalkInv'
  BY <1>3 DEF read, WalkInv
<1> QED
  BY <1>1, <1>2, <1>3
     DEF Next, AppendStep, Begin, ReadHead, Place, Lose, Commit, Abort, vars, read

\* audit.verify: an intact chain is never reported broken, ok vouches for all that
\* is committed when it is answered, and TRUNCATED means an append was committed
\* between the walk and the reading of the anchor.
THEOREM VerdictTrue == Spec => VerdictIsTrue
<1>1. Init => WalkInv
  BY DEF Init, WalkInv
<1>2. TypeOK /\ ChainInv /\ WalkInv /\ [Next]_vars =>
        [\A v \in Verifier : verdict[v] = "walking" /\ verdict'[v] # "walking" =>
           verdict'[v] = IF walked[v] = entries THEN "ok" ELSE "TRUNCATED"]_vars
  <2> SUFFICES ASSUME TypeOK, ChainInv, WalkInv, [Next]_vars, NEW v \in Verifier,
                      verdict[v] = "walking", verdict'[v] # "walking"
               PROVE  verdict'[v] = IF walked[v] = entries THEN "ok" ELSE "TRUNCATED"
    OBVIOUS
  <2>1. Judge(v)
    BY DEF Next, AppendStep, Begin, ReadHead, Place, Lose, Commit, Abort, Walk, Judge, vars,
           read, TypeOK
  <2>2. verdict'[v] = Verdict(walked[v], anchor)
    BY <2>1 DEF Judge, TypeOK
  <2>3. Linked(walked[v]) /\ walked[v] \subseteq entries /\ Chain(entries, anchor)
    BY DEF WalkInv, ChainInv
  <2>4. CASE walked[v] = entries
    BY <2>2, <2>3, <2>4, ChainOk
  <2>5. CASE walked[v] # entries
    <3>1. Verdict(walked[v], anchor) # "ok"
      BY <2>3, <2>5, RemovalBreaks
    <3> QED
      BY <2>2, <2>3, <2>5, <3>1 DEF Verdict
  <2> QED
    BY <2>4, <2>5
<1> QED
  BY <1>1, <1>2, WalkStep, ChainInductive, PTL DEF Spec, VerdictIsTrue
-----------------------------------------------------------------------------
(* The chain implements the abstract log.                                  *)

\* Every change has one entry at most, committed or not.
OnceInv ==
  /\ \A e, f \in entries : e.hash = f.hash => e = f
  /\ \A t \in Txn : \A e, f \in pend[t] : e.hash = f.hash => e = f
  /\ \A t \in Txn : made[t] \cap stands = {}
  /\ \A t, u \in Txn : t # u => made[t] \cap made[u] = {}
  /\ \A t \in Txn : pc[t] \in {"reading", "writing"} => doing[t] \notin Of(pend[t])

\* A change is begun once, since nobody begins one that stands or is under way.
LEMMA OnceStep ==
  ASSUME TypeOK, BookInv, OnceInv, [Next]_vars
  PROVE  OnceInv'
<1> USE DEF read, txn, TypeOK, OnceInv
<1>1. ASSUME NEW t \in Txn, NEW c \in Change, Begin(t, c) PROVE OnceInv'
  <2>1. c \notin stands /\ \A u \in Txn : c \notin made[u]
    BY <1>1 DEF Begin, Untouched
  <2>2. c \notin Of(pend[t])
    BY <2>1 DEF BookInv
  <2> QED
    BY <1>1, <2>1, <2>2 DEF Begin, Of
<1>2. ASSUME NEW t \in Txn, ReadHead(t) PROVE OnceInv'
  BY <1>2 DEF ReadHead
<1>3. ASSUME NEW t \in Txn, Place(t) PROVE OnceInv'
  <2>1. \A e \in pend[t] : e.hash # doing[t]
    BY <1>3 DEF Place, Of
  <2>2. pend'[t] = pend[t] \cup {NewEntry(t)} /\ NewEntry(t).hash = doing[t]
    BY <1>3 DEF Place, NewEntry
  <2> QED
    BY <1>3, <2>1, <2>2 DEF Place, Of
<1>4. ASSUME NEW t \in Txn, Lose(t) PROVE OnceInv'
  BY <1>4 DEF Lose, AfterLoss
<1>5. ASSUME NEW t \in Txn, Commit(t) PROVE OnceInv'
  <2>1. \A e \in pend[t] : e.hash \in made[t]
    BY <1>5 DEF BookInv, Of
  <2>2. \A e \in entries : e.hash \in stands
    BY DEF BookInv, Of
  <2>3. \A e, f \in entries' : e.hash = f.hash => e = f
    BY <1>5, <2>1, <2>2 DEF Commit
  <2> QED
    BY <1>5, <2>3 DEF Commit, Close, Of
<1>6. ASSUME NEW t \in Txn, Abort(t) PROVE OnceInv'
  BY <1>6 DEF Abort, Close, Of
<1>7. ASSUME NEW v \in Verifier, Walk(v) \/ Judge(v) PROVE OnceInv'
  BY <1>7 DEF Walk, Judge
<1>8. CASE UNCHANGED vars
  BY <1>8 DEF vars
<1> QED
  BY <1>1, <1>2, <1>3, <1>4, <1>5, <1>6, <1>7, <1>8 DEF Next, AppendStep

\* Each change has one entry, for good.
LEMMA OnceInductive == Spec => []OnceInv
<1>1. Init => OnceInv
  BY DEF Init, OnceInv, Of
<1>2. TypeOK /\ BookInv /\ OnceInv /\ [Next]_vars => OnceInv'
  BY OnceStep
<1> QED
  BY <1>1, <1>2, TypeCorrect, BookInductive, PTL DEF Spec

\* An append that waits, waits for a transaction that waits for nobody, and whose
\* own next entry, if it is placing one, cannot be refused: the safety half of
\* AppendEnds, and why the transactions of one chain never deadlock.
NoCircle ==
  \A t \in Txn : pc[t] = "writing" /\ Waits(t) =>
    \E u \in Txn \ {t} : /\ pend[u] # {} /\ ~Waits(u)
                         /\ pc[u] = "writing" => ~Refused(NewEntry(u))

\* Whoever has rows of its own in the chain has the next position for itself.
LEMMA HolderUnrefused ==
  ASSUME TypeOK, ChainInv, BookInv, OnceInv, NEW u \in Txn, pend[u] # {}, pc[u] = "writing"
  PROVE  ~Refused(NewEntry(u))
<1> DEFINE rows == entries \cup pend[u]
<1>1. Chain(rows, moved[u]) /\ head[u] = moved[u] /\ rows # {}
  BY DEF ChainInv
<1>2. NewEntry(u).seq = moved[u].seq + 1 /\ NewEntry(u).prev = moved[u].hash
  BY <1>1 DEF NewEntry
<1>3. \A e \in rows : /\ e.seq \in Nat \ {0} /\ e.seq <= moved[u].seq
                      /\ e.hash \in Change
  BY <1>1 DEF Chain, Entry
<1>4. moved[u].seq \in Nat
  BY <1>1 DEF Chain, ChainHead
<1>5. moved[u].seq # 0
  BY <1>1, <1>3, <1>4
<1>6. PICK top \in rows : top.seq = moved[u].seq /\ top.hash = moved[u].hash
  BY <1>1, <1>5 DEF Chain
<1>7. \A e, f \in rows : e.hash = f.hash => e = f
  <2>1. \A e \in entries : e.hash \in stands
    BY DEF BookInv, Of
  <2>2. \A e \in pend[u] : e.hash \in made[u]
    BY DEF BookInv, Of
  <2>3. \A e \in entries, f \in pend[u] : e.hash # f.hash
    BY <2>1, <2>2 DEF OnceInv
  <2> QED
    BY <2>3 DEF OnceInv
<1>8. ASSUME NEW f \in rows PROVE f.seq # moved[u].seq + 1
  BY <1>3, <1>4
<1>9. ASSUME NEW f \in rows, f.prev = moved[u].hash PROVE FALSE
  <2>1. f.prev # GENESIS
    BY <1>3, <1>6, <1>9
  <2>2. PICK g \in rows : g.seq = f.seq - 1 /\ g.hash = f.prev
    BY <1>1, <2>1 DEF Chain
  <2>3. g = top
    BY <1>6, <1>7, <1>9, <2>2
  <2>4. f.seq = moved[u].seq + 1
    BY <1>3, <1>4, <1>6, <2>2, <2>3
  <2> QED
    BY <1>8, <2>4
<1> QED
  BY <1>2, <1>8, <1>9 DEF Refused

\* audit.append, where the loser "re-reads the head and retries": the wait of an
\* append always has an end that some transaction can bring about by itself.
THEOREM NobodyCircles == Spec => []NoCircle
<1>1. TypeOK /\ ChainInv /\ BookInv /\ OnceInv => NoCircle
  <2> SUFFICES ASSUME TypeOK, ChainInv, BookInv, OnceInv,
                      NEW t \in Txn, pc[t] = "writing", Waits(t)
               PROVE  \E u \in Txn \ {t} : /\ pend[u] # {} /\ ~Waits(u)
                                           /\ pc[u] = "writing" => ~Refused(NewEntry(u))
    BY DEF NoCircle
  <2>1. PICK u \in Txn \ {t} : pend[u] # {}
    BY DEF Waits
  <2>2. ~Waits(u)
    BY <2>1 DEF Waits, ChainInv
  <2> QED
    BY <2>1, <2>2, HolderUnrefused
<1> QED
  BY <1>1, ChainInductive, BookInductive, OnceInductive, PTL

\* The log of a chain: its entries' changes by position.
LogOf(rows, top) == [n \in 1..top.seq |-> (CHOOSE e \in rows : e.seq = n).hash]

\* It is a sequence of changes, one for each entry, and no change comes twice.
LEMMA LogIsSeq ==
  ASSUME NEW rows, NEW top, Chain(rows, top),
         \A e, f \in rows : e.hash = f.hash => e = f
  PROVE  /\ LogOf(rows, top) \in Seq(Change) /\ Len(LogOf(rows, top)) = top.seq
         /\ DOMAIN LogOf(rows, top) = 1..top.seq /\ top.seq \in Nat
         /\ \A n \in 1..top.seq : \E e \in rows : e.seq = n /\ LogOf(rows, top)[n] = e.hash
         /\ \A i, j \in 1..top.seq : LogOf(rows, top)[i] = LogOf(rows, top)[j] => i = j
<1>1. top.seq \in Nat /\ \A e \in rows : e.hash \in Change
  BY DEF Chain, ChainHead, Entry
<1>2. ASSUME NEW n \in 1..top.seq
      PROVE  \E e \in rows : e.seq = n /\ LogOf(rows, top)[n] = e.hash
  <2>1. \E e \in rows : e.seq = n
    BY DEF Chain
  <2>2. PICK e \in rows : e.seq = n /\ e = CHOOSE f \in rows : f.seq = n
    BY <2>1
  <2> QED
    BY <2>2 DEF LogOf
<1>3. LogOf(rows, top) \in [1..top.seq -> Change]
  <2>1. \A n \in 1..top.seq : LogOf(rows, top)[n] \in Change
    BY <1>1, <1>2
  <2> QED
    BY <2>1 DEF LogOf
<1>4. /\ LogOf(rows, top) \in Seq(Change) /\ Len(LogOf(rows, top)) = top.seq
      /\ DOMAIN LogOf(rows, top) = 1..top.seq
  <2> DEFINE log == LogOf(rows, top)
  <2>1. log \in [1..top.seq -> Change]
    BY <1>3
  <2> HIDE DEF log
  <2>2. log \in Seq(Change) /\ Len(log) = top.seq /\ DOMAIN log = 1..top.seq
    BY <1>1, <2>1
  <2> QED
    BY <2>2 DEF log
<1>5. ASSUME NEW i \in 1..top.seq, NEW j \in 1..top.seq,
             LogOf(rows, top)[i] = LogOf(rows, top)[j]
      PROVE  i = j
  BY <1>2, <1>5
<1> QED
  BY <1>1, <1>2, <1>4, <1>5

\* A longer chain has a longer log, which begins with the shorter one's.
LEMMA LogGrows ==
  ASSUME NEW rows, NEW top, Chain(rows, top),
         NEW more, NEW last, Chain(more, last), rows \subseteq more, rows # more,
         \A e, f \in more : e.hash = f.hash => e = f
  PROVE  /\ top.seq < last.seq
         /\ \A n \in 1..top.seq : LogOf(more, last)[n] = LogOf(rows, top)[n]
<1>1. top.seq \in Nat /\ last.seq \in Nat
  BY DEF Chain, ChainHead
<1>2. PICK e \in more : e \notin rows
  OBVIOUS
<1>3. e.seq \in Nat \ {0} /\ e.seq <= last.seq
  BY DEF Chain, Entry
<1>4. ~(e.seq <= top.seq)
  <2> SUFFICES ASSUME e.seq \in 1..top.seq PROVE FALSE
    BY <1>1, <1>3
  <2>1. PICK f \in rows : f.seq = e.seq
    BY DEF Chain
  <2> QED
    BY <1>2, <2>1 DEF Chain
<1>5. top.seq < last.seq
  BY <1>1, <1>3, <1>4
<1>6. ASSUME NEW n \in 1..top.seq
      PROVE  LogOf(more, last)[n] = LogOf(rows, top)[n]
  <2>1. PICK d \in rows : d.seq = n /\ LogOf(rows, top)[n] = d.hash
    BY LogIsSeq
  <2>2. n \in 1..last.seq
    BY <1>1, <1>5
  <2>3. PICK f \in more : f.seq = n /\ LogOf(more, last)[n] = f.hash
    BY <2>2, LogIsSeq
  <2>4. d = f
    BY <2>1, <2>3 DEF Chain
  <2> QED
    BY <2>1, <2>3, <2>4
<1> QED
  BY <1>5, <1>6

\* audit.append refines the abstract log: a commit records its changes at the
\* end, each once, and no other step is seen.
THEOREM RefinesLog == Spec => IsAppendOnly
<1>1. Init => Log!Init
  BY DEF Init, Log!Init, ChainLog, HeadOf, Empty
<1>2. TypeOK /\ ChainInv /\ OnceInv /\ (TypeOK /\ ChainInv /\ OnceInv)' /\ [Next]_vars
        => [Log!Record]_ChainLog
  <2> SUFFICES ASSUME TypeOK, ChainInv, OnceInv, ChainInv', OnceInv', [Next]_vars,
                      ChainLog' # ChainLog
               PROVE  Log!Record
    OBVIOUS
  <2>1. /\ Chain(entries, anchor) /\ Chain(entries', anchor')
        /\ \A e, f \in entries : e.hash = f.hash => e = f
        /\ \A e, f \in entries' : e.hash = f.hash => e = f
    BY DEF ChainInv, OnceInv
  <2>2. ChainLog = LogOf(entries, anchor) /\ ChainLog' = LogOf(entries', anchor')
    BY <2>1, HeadIsTop DEF ChainLog, LogOf
  <2>3. entries' # entries
    <3>1. entries' = entries => anchor' = anchor
      <4>1. HeadOf(entries) = anchor /\ HeadOf(entries') = anchor'
        BY <2>1, HeadIsTop
      <4> QED
        BY <4>1
    <3> QED
      BY <2>2, <3>1
  <2>4. entries \subseteq entries'
    BY <2>3 DEF Next, AppendStep, Begin, ReadHead, Place, Lose, Commit, Abort, Walk, Judge, vars
  <2> DEFINE old == LogOf(entries, anchor)
             new == LogOf(entries', anchor')
  <2>5. /\ old \in Seq(Change) /\ Len(old) = anchor.seq
        /\ new \in Seq(Change) /\ Len(new) = anchor'.seq
        /\ DOMAIN new = 1..anchor'.seq /\ anchor.seq \in Nat /\ anchor'.seq \in Nat
        /\ \A i, j \in DOMAIN new : new[i] = new[j] => i = j
    BY <2>1, LogIsSeq
  <2>6. anchor.seq < anchor'.seq /\ \A n \in 1..anchor.seq : new[n] = old[n]
    BY <2>1, <2>3, <2>4, LogGrows
  <2> HIDE DEF old, new
  <2>7. SubSeq(new, 1, Len(old)) = old
    BY <2>5, <2>6
  <2>8. /\ Len(old) < Len(new) /\ \A i \in DOMAIN new : new[i] \in Change
    BY <2>5, <2>6
  <2> QED
    BY <2>2, <2>5, <2>7, <2>8 DEF Log!Record, old, new
<1> QED
  BY <1>1, <1>2, ChainInductive, OnceInductive, PTL DEF Spec, IsAppendOnly, Log!Spec
=============================================================================
