-------------------------- MODULE PullMirrorProofs --------------------------
(***************************************************************************)
(* Proofs about SourcePull, continued: what a listing accounts for.  A      *)
(* document is retired for a cause, and a listing that reached its end      *)
(* while the source stood still leaves the window mirrored.                 *)
(***************************************************************************)
EXTENDS SourcePullProofs, FiniteSetTheorems

LiveIn(d, w) == src[d].status = "live" /\ src[d].win = w

\* The session differs from what is committed in the documents it has fetched.
SessionInv ==
  /\ pc # "listing" => rm = db /\ fresh = {}
  /\ fresh \subseteq listed
  /\ \A d \in Doc \ fresh : /\ rm.held[d] = db.held[d] /\ rm.cur[d] = db.cur[d]
                             /\ rm.ev[d] = db.ev[d]
  /\ \A d \in Doc : db.held[d] # None => rm.held[d] # None

\* The listing has shown the document, is about to, or has it on a later page.
Accounted(d) ==
  \/ d \in listed
  \/ \E r \in rows : r.doc = d /\ r.live
  \/ more /\ Rank(d, win, mark) \div PageSize >= page

\* Nothing that was live in the window all along is lost between the pages.
ListingInv ==
  pc = "listing" =>
    /\ \A d \in Doc \ away : LiveIn(d, win)
    /\ ~early /\ ~slipped => \A d \in Doc \ away : Accounted(d)

\* A store that agrees with the source about a window, both ways.
Mirrors(s, w) ==
  /\ \A d \in Doc : LiveIn(d, w) => CurrentIn(s, d)
  /\ \A d \in Doc : s.held[d] # None /\ s.cur[d] # 0 /\ s.held[d].win = w => LiveIn(d, w)

Mirrored(W) == \A w \in W : Mirrors(rm, w) /\ Mirrors(db, w)

\* A listing while the source stands still: what it knows is what is there.
QuietListing ==
  /\ ~slipped
  /\ \A d \in Doc : d \in away <=> ~LiveIn(d, win)
  /\ \A r \in rows : /\ r.stamp = src[r.doc].stamp /\ (r.live <=> src[r.doc].status = "live")
                     /\ src[r.doc].win = win
  /\ \A d \in listed : LiveIn(d, win) /\ CurrentIn(rm, d)
  /\ \A d \in Doc : known[d] # 0 /\ Shown(d) /\ known[d] = src[d].stamp => CurrentIn(rm, d)

QuietInv ==
  /\ pc = "listing" /\ quiet => QuietListing
  /\ quiet => Mirrored(whole)
  /\ last # None => Mirrored(last.whole) /\ (pc # "idle" => quiet)
-----------------------------------------------------------------------------
(* Ranks and pages.                                                        *)

LEMMA Pages ==
  ASSUME NEW a \in Nat, NEW b \in Nat, a <= b
  PROVE  /\ a \div PageSize \in Nat
         /\ a \div PageSize <= b \div PageSize
         /\ \A n \in Nat : a \div PageSize >= n => a >= n * PageSize
<1> DEFINE p == PageSize
           q == a \div p
           t == b \div p
<1>1. p \in Nat \ {0}
  BY PullAssumption
<1>2. q \in Nat /\ p * q <= a /\ a < p * (q + 1)
  BY <1>1
<1>3. t \in Nat /\ p * t <= b /\ b < p * (t + 1)
  BY <1>1
<1>4. q <= t
  <2> SUFFICES ASSUME t + 1 <= q PROVE FALSE
    BY <1>2, <1>3
  <2> HIDE DEF p, q, t
  <2>1. p * (t + 1) <= p * q
    BY <1>1, <1>2, <1>3
  <2> QED BY <1>1, <1>2, <1>3, <2>1
<1>5. ASSUME NEW n \in Nat, q >= n PROVE a >= n * p
  <2> HIDE DEF p, q, t
  <2>1. n * p <= p * q
    BY <1>1, <1>2, <1>5
  <2> QED BY <1>1, <1>2, <2>1
<1> QED BY <1>2, <1>4, <1>5

LEMMA DocsFinite == IsFiniteSet(Doc)
<1>1. 1 \in Int /\ Docs \in Int
  BY PullAssumption
<1>2. IsFiniteSet(1..Docs)
  BY ONLY <1>1, FS_Interval
<1> QED BY <1>2 DEF Doc

\* A document of a book comes before its end.
LEMMA Ranks ==
  ASSUME NEW w \in Win, NEW m \in Stamp, NEW d \in Book(w), TypeOK
  PROVE  Rank(d, w, m) \in Nat /\ Cardinality(Book(w)) \in Nat
         /\ Rank(d, w, m) < Cardinality(Book(w))
<1> DEFINE before == {e \in Book(w) : Precedes(e, d, m)}
<1>1. IsFiniteSet(Book(w))
  <2>1. Book(w) \in SUBSET Doc
    BY DEF Book
  <2> QED BY <2>1, DocsFinite, FS_Subset
<1>2. before \in SUBSET Book(w) /\ d \notin before
  <2>1. d \in Nat /\ src[d].stamp \in Nat
    BY DEF Book, Doc, TypeOK, Stamp
  <2>2. ~Precedes(d, d, m)
    BY <2>1 DEF Precedes
  <2> QED BY <2>2
<1>3. /\ IsFiniteSet(before)
      /\ Cardinality(before) <= Cardinality(Book(w))
      /\ Cardinality(before) # Cardinality(Book(w))
  BY <1>1, <1>2, FS_Subset
<1>4. Cardinality(before) \in Nat /\ Cardinality(Book(w)) \in Nat
  BY <1>1, <1>3, FS_CardinalityType
<1> QED BY <1>3, <1>4 DEF Rank

LEMMA RankType ==
  ASSUME TypeOK, NEW w \in Win, NEW m \in Stamp, NEW d \in Doc, LiveIn(d, w)
  PROVE  Rank(d, w, m) \in Nat /\ Rank(d, w, m) \div PageSize \in Nat
<1>1. d \in Book(w)
  BY DEF Book, LiveIn, Shown
<1>2. Rank(d, w, m) \in Nat
  BY <1>1, Ranks
<1> QED BY <1>2, Pages

\* What is not on the pages read is on a later one, and the source says so.
LEMMA LaterPage ==
  ASSUME TypeOK, NEW w \in Win, NEW m \in Stamp, NEW d \in Doc, LiveIn(d, w), NEW n \in Nat,
         Rank(d, w, m) \div PageSize >= n
  PROVE  /\ HasMore(n, w)
         /\ \/ Rank(d, w, m) \div PageSize >= n + 1
            \/ \E r \in PageRows(n + 1, w, m) : r.doc = d /\ r.live
<1>1. d \in Book(w)
  BY DEF Book, LiveIn, Shown
<1>2. /\ Rank(d, w, m) \in Nat /\ Rank(d, w, m) < Cardinality(Book(w))
      /\ Cardinality(Book(w)) \in Nat
  BY <1>1, Ranks
<1>3. Rank(d, w, m) >= n * PageSize /\ Rank(d, w, m) \div PageSize \in Nat
  BY <1>2, Pages
<1>4. n * PageSize \in Nat
  BY PullAssumption
<1>5. HasMore(n, w)
  BY <1>2, <1>3, <1>4 DEF HasMore
<1>6. ASSUME Rank(d, w, m) \div PageSize = n
      PROVE  \E r \in PageRows(n + 1, w, m) : r.doc = d /\ r.live
  <2> DEFINE r == [doc |-> d, stamp |-> src[d].stamp, live |-> src[d].status = "live"]
  <2>1. r \in PageRows(n + 1, w, m)
    BY <1>1, <1>6 DEF PageRows
  <2>2. r.doc = d /\ r.live
    BY DEF LiveIn
  <2> HIDE DEF r
  <2> QED BY <2>1, <2>2
<1> QED BY <1>3, <1>5, <1>6

\* A change that does not move the pages to come never brings a document forward.
LEMMA RankGrows ==
  ASSUME NEW e \in Doc, NEW w \in Win, NEW m \in Stamp, NEW d \in Book(w), d \in Book(w)',
         \A x \in Doc \ {e} : src'[x] = src[x],
         e \notin Book(w) \/ (m = 0 /\ e \in Book(w)')
  PROVE  /\ Rank(d, w, m) \in Nat /\ Rank(d, w, m)' \in Nat
         /\ Rank(d, w, m) <= Rank(d, w, m)'
         /\ Rank(d, w, m) \div PageSize <= Rank(d, w, m)' \div PageSize
<1> DEFINE B == {x \in Book(w) : Precedes(x, d, m)}
           C == {x \in Book(w)' : Precedes(x, d, m)'}
<1>1. IsFiniteSet(C)
  <2>1. C \in SUBSET Doc
    BY DEF Book
  <2> QED BY <2>1, DocsFinite, FS_Subset
<1>2. B \in SUBSET C
  <2> SUFFICES ASSUME NEW x \in B PROVE x \in C
    OBVIOUS
  <2>1. x \in Doc /\ d \in Doc /\ x \in Book(w)
    BY DEF Book
  <2>2. CASE x = e
    BY <2>1, <2>2 DEF Precedes
  <2>3. CASE x # e
    <3>1. x \in Book(w)'
      BY <2>1, <2>3 DEF Book, Shown
    <3>2. Precedes(x, d, m)'
      <4>1. CASE m = 0
        BY <4>1 DEF Precedes
      <4>2. CASE m # 0
        <5>1. d # e
          BY <4>2
        <5> QED BY <2>1, <2>3, <5>1 DEF Precedes
      <4> QED BY <4>1, <4>2
    <3> QED BY <3>1, <3>2
  <2> QED BY <2>2, <2>3
<1>3. Cardinality(B) <= Cardinality(C) /\ Cardinality(B) \in Nat /\ Cardinality(C) \in Nat
  BY <1>1, <1>2, FS_Subset, FS_CardinalityType
<1>4. Rank(d, w, m) = Cardinality(B) /\ Rank(d, w, m)' = Cardinality(C)
  BY DEF Rank
<1>5. Rank(d, w, m) \in Nat /\ Rank(d, w, m)' \in Nat /\ Rank(d, w, m) <= Rank(d, w, m)'
  BY <1>3, <1>4
<1> QED BY <1>5, Pages
-----------------------------------------------------------------------------
(* The session, and what a listing accounts for.                           *)

\* A run that ends leaves the session as committed.
LEMMA EndSession ==
  ASSUME EndRun, rm' = db'
  PROVE  SessionInv' /\ ListingInv'
  BY DEF EndRun, DropListing, SessionInv, ListingInv

\* A change at the source: a row still to come goes no further ahead unless the
\* listing has slipped.
LEMMA SourceAccounts ==
  ASSUME TypeOK, TypeOK', SessionInv, ListingInv, NEW e \in Doc, NEW moved \in BOOLEAN,
         Notice(e, moved), \A x \in Doc \ {e} : src'[x] = src[x],
         \/ moved
         \/ src[e].win # win \/ ~Shown(e)
         \/ mark = 0 /\ src[e].win = win /\ src'[e].win = win /\ Shown(e)'
  PROVE  SessionInv' /\ ListingInv'
<1>1. UNCHANGED <<rm, db, covered, pc, kind, since, win, mark, known, rows, page, more,
                  early, listed, fresh, clash>>
  BY DEF Notice, store, run, listing, txn
<1>2. SessionInv'
  BY <1>1 DEF SessionInv
<1>3. ASSUME pc = "listing", NEW d \in Doc \ away' PROVE d \notin away /\ LiveIn(d, win)'
  BY <1>1, <1>3 DEF Notice, ListingInv, LiveIn
<1>4. ASSUME pc = "listing", ~early, ~slipped', NEW d \in Doc \ away' PROVE Accounted(d)'
  <2>1. Accounted(d) /\ LiveIn(d, win) /\ LiveIn(d, win)'
    BY <1>3, <1>4 DEF Notice, ListingInv
  <2>2. CASE d \in listed \/ \E r \in rows : r.doc = d /\ r.live
    BY <1>1, <2>2 DEF Accounted
  <2>3. CASE more /\ Rank(d, win, mark) \div PageSize >= page
    <3>1. ~moved
      BY <1>4, <2>3 DEF Notice
    <3>2. d \in Book(win) /\ d \in Book(win)'
      BY <1>1, <2>1 DEF Book, LiveIn, Shown
    <3>3. e \notin Book(win) \/ (mark = 0 /\ e \in Book(win)')
      BY <1>1, <3>1 DEF Book
    <3>4. win \in Win /\ mark \in Stamp /\ page \in Nat
      BY DEF TypeOK
    <3>5. (Rank(d, win, mark) \div PageSize) <= (Rank(d, win, mark)' \div PageSize)
          /\ Rank(d, win, mark) \in Nat /\ Rank(d, win, mark)' \in Nat
      <4> DEFINE R(w, m) == Rank(d, w, m)
      <4>1. \A w \in Win, m \in Stamp : w = win /\ m = mark =>
              /\ R(w, m) \div PageSize <= R(w, m)' \div PageSize
              /\ R(w, m) \in Nat /\ R(w, m)' \in Nat
        BY <1>1, <3>2, <3>3, RankGrows
      <4> QED BY <1>1, <3>4, <4>1
    <3>6. /\ Rank(d, win, mark) \div PageSize \in Nat
          /\ Rank(d, win, mark)' \div PageSize \in Nat
      BY <3>5, Pages
    <3> QED BY <1>1, <2>3, <3>4, <3>5, <3>6 DEF Accounted
  <2> QED BY <2>1, <2>2, <2>3 DEF Accounted
<1> QED BY <1>1, <1>2, <1>3, <1>4 DEF ListingInv

AccountInv == SessionInv /\ ListingInv

\* A row that has been dealt with is listed, or was no live document.
LEMMA RowAccounts ==
  ASSUME TypeOK, AccountInv, NEW r \in rows, rows' = rows \ {r},
         listed' = listed \cup {r.doc} \/ (listed' = listed /\ ~r.live),
         UNCHANGED <<src, pc, win, mark, page, more, early, away, slipped>>
  PROVE  ListingInv'
<1>1. ASSUME NEW d \in Doc, Accounted(d) PROVE Accounted(d)'
  <2>1. Rank(d, win, mark)' = Rank(d, win, mark)
    BY DEF Rank, Book, Shown, Precedes
  <2>2. d \in listed => d \in listed'
    OBVIOUS
  <2>3. ASSUME NEW q \in rows, q.doc = d, q.live PROVE Accounted(d)'
    BY <2>3 DEF Accounted
  <2> QED BY <1>1, <2>1, <2>2, <2>3 DEF Accounted
<1> QED BY <1>1 DEF AccountInv, ListingInv, LiveIn

LEMMA AccountStep ==
  ASSUME TypeOK, TypeOK', AccountInv, [Next]_vars
  PROVE  AccountInv'
<1> USE DEF AccountInv
<1>1. ASSUME NEW e \in Doc, Create(e) \/ Edit(e) \/ Delete(e) PROVE AccountInv'
  <2>1. \A x \in Doc \ {e} : src'[x] = src[x]
    BY <1>1 DEF Create, Edit, Delete, Written, TypeOK
  <2>2. CASE Create(e)
    BY <2>1, <2>2, SourceAccounts DEF Create, Shown
  <2>3. CASE Edit(e)
    <3>1. Shown(e)'
      BY <2>3 DEF Edit, Shown, Written, TypeOK
    <3>2. mark \in Nat
      BY DEF TypeOK, Stamp
    <3>3. PICK moved \in BOOLEAN :
            /\ Notice(e, moved)
            /\ moved <=> (src[e].win = win /\ (mark > 0 \/ src'[e].win # win))
      BY <2>3 DEF Edit
    <3> QED BY <2>1, <3>1, <3>2, <3>3, SourceAccounts
  <2>4. CASE Delete(e)
    <3>1. PICK moved \in BOOLEAN : Notice(e, moved) /\ (moved <=> src[e].win = win)
      BY <2>4 DEF Delete
    <3> QED BY <2>1, <3>1, SourceAccounts
  <2> QED BY <1>1, <2>2, <2>3, <2>4
<1>2. ASSUME NEW k \in Kinds, NEW s \in Win, StartRun(k, s) PROVE AccountInv'
  <2>1. rm' = db' /\ fresh' = fresh /\ listed' = listed /\ pc' = "window" /\ fresh = {}
    BY <1>2 DEF StartRun, SessionInv, listing, txn
  <2> QED BY <2>1 DEF SessionInv, ListingInv
<1>3. CASE OpenWindow
  <2>1. PICK m \in Stamp : mark' = m /\ rows' = PageRows(1, win, m)
    BY <1>3 DEF OpenWindow
  <2>2. /\ pc = "window" /\ pc' = "listing" /\ page' = 1 /\ more' = HasMore(1, win)
        /\ listed' = {} /\ win' = win /\ UNCHANGED <<src, rm, db, fresh>>
        /\ away' = {d \in Doc : src[d].status # "live" \/ src[d].win # win}
    BY <1>3 DEF OpenWindow, source, store, txn
  <2>3. SessionInv'
    BY <2>2 DEF SessionInv
  <2>4. \A d \in Doc \ away' : LiveIn(d, win) /\ LiveIn(d, win)'
    BY <2>2 DEF LiveIn
  <2>5. ASSUME NEW d \in Doc \ away' PROVE Accounted(d)'
    <3>1. win \in Win
      BY DEF TypeOK
    <3>2. Rank(d, win, m) \in Nat /\ Rank(d, win, m) \div PageSize \in Nat
      BY <2>4, <3>1, RankType
    <3>3. \/ \E r \in PageRows(1, win, m) : r.doc = d /\ r.live
          \/ Rank(d, win, m) \div PageSize >= 1 /\ HasMore(1, win)
      BY <2>4, <3>1, <3>2, LaterPage
    <3>4. Rank(d, win, mark)' = Rank(d, win, m)
      BY <2>1, <2>2 DEF Rank, Book, Shown, Precedes
    <3> QED BY <2>1, <2>2, <3>3, <3>4 DEF Accounted
  <2> QED BY <2>2, <2>3, <2>4, <2>5 DEF ListingInv
<1>4. CASE NextPage
  <2>1. /\ pc = "listing" /\ rows = {} /\ page' = page + 1 /\ page \in Nat
        /\ rows' = PageRows(page + 1, win, mark) /\ more' = HasMore(page + 1, win)
        /\ UNCHANGED <<src, rm, db, fresh, listed, pc, win, mark, early, away, slipped>>
    BY <1>4 DEF NextPage, source, store, run, txn, history, TypeOK
  <2>2. SessionInv'
    BY <2>1 DEF SessionInv
  <2>3. ASSUME NEW d \in Doc \ away, ~early, ~slipped PROVE Accounted(d)'
    <3>1. d \in listed \/ Rank(d, win, mark) \div PageSize >= page
      BY <2>1, <2>3 DEF ListingInv, Accounted
    <3>2. LiveIn(d, win) /\ win \in Win /\ mark \in Stamp
      BY <2>1, <2>3 DEF ListingInv, TypeOK
    <3>3. Rank(d, win, mark) \in Nat /\ Rank(d, win, mark) \div PageSize \in Nat
      BY <3>2, RankType
    <3>4. Rank(d, win, mark)' = Rank(d, win, mark)
      BY <2>1 DEF Rank, Book, Shown, Precedes
    <3>5. ASSUME Rank(d, win, mark) \div PageSize >= page PROVE Accounted(d)'
      <4>1. \/ \E r \in rows' : r.doc = d /\ r.live
            \/ Rank(d, win, mark) \div PageSize >= page + 1
        BY <2>1, <3>2, <3>5, LaterPage
      <4>2. Rank(d, win, mark) \div PageSize >= page + 1 => HasMore(page + 1, win)
        BY <2>1, <3>2, LaterPage
      <4> QED BY <2>1, <3>4, <4>1, <4>2 DEF Accounted
    <3> QED BY <2>1, <3>1, <3>5 DEF Accounted
  <2> QED BY <2>1, <2>2, <2>3 DEF ListingInv, LiveIn
<1>5. ASSUME NEW r \in rows, StopAtMark(r) PROVE AccountInv'
  BY <1>5 DEF StopAtMark, SessionInv, ListingInv, LiveIn, source, store, run, txn, history
<1>6. ASSUME NEW r \in rows, PassOver(r) \/ Resumed(r) PROVE AccountInv'
  <2>1. SessionInv'
    BY <1>6 DEF PassOver, Resumed, SessionInv, store, run, txn
  <2> QED
    BY <1>6, <2>1, RowAccounts DEF PassOver, Resumed, source, run, history
<1>7. ASSUME NEW r \in rows, Fetch(r) PROVE AccountInv'
  <2>1. r.doc \in Doc
    BY DEF TypeOK, Row
  <2>2. Upserted(r.doc) # None
    <3>1. Upserted(r.doc) \in HeldRow
      BY <2>1, StoreFields DEF Upserted, TypeOK, HeldRow
    <3> QED BY <3>1, NoneAssumption
  <2>3. SessionInv'
    BY <1>7, <2>1, <2>2, StoreFields DEF Fetch, SessionInv, run, IsNext, TypeOK
  <2> QED
    BY <1>7, <2>3, RowAccounts DEF Fetch, source, run, history
<1>8. ASSUME NEW r \in rows, DetailGone(r) PROVE AccountInv'
  BY <1>8, EndSession DEF DetailGone
<1>9. CASE CloseWindow
  BY <1>9 DEF CloseWindow, DropListing, SessionInv, ListingInv
<1>10. CASE Refused
  BY <1>10, EndSession DEF Refused
<1>11. CASE Finish
  <2>1. rm = db
    BY <1>11 DEF Finish, SessionInv
  <2> QED BY <1>11, <2>1, EndSession DEF Finish
<1>12. CASE Fail
  BY <1>12, EndSession DEF Fail
<1>13. CASE Kill
  BY <1>13, EndSession DEF Kill
<1>14. CASE UNCHANGED vars
  <2>1. \A d \in Doc : Rank(d, win, mark)' = Rank(d, win, mark)
    BY <1>14 DEF Rank, Book, Shown, Precedes, vars, source, run, listing
  <2>2. \A d \in Doc : Accounted(d)' <=> Accounted(d)
    BY <1>14, <2>1 DEF Accounted, vars, listing
  <2> QED
    BY <1>14, <2>2 DEF SessionInv, ListingInv, LiveIn, vars, source, store, run, listing,
       txn, history
<1> QED
  BY <1>1, <1>2, <1>3, <1>4, <1>5, <1>6, <1>7, <1>8, <1>9, <1>10, <1>11, <1>12,
     <1>13, <1>14 DEF Next, SourceStep, PullStep, RowStep

LEMMA AccountInductive == Spec => []AccountInv
<1>1. Init => AccountInv
  BY DEF Init, AccountInv, SessionInv, ListingInv
<1>2. TypeOK /\ TypeOK' /\ AccountInv /\ [Next]_vars => AccountInv'
  BY AccountStep
<1> QED BY <1>1, <1>2, TypeCorrect, PTL DEF Spec

\* SyncService._mirror, for any book, page size and interleaving of the source: a
\* document is retired only if it was not live in the window all along, or the
\* source reordered under the pages still to come.
THEOREM RetireSafe == Spec => RetireNeedsCause
<1>1. ASSUME TypeOK, AccountInv, [Next]_vars,
             NEW d \in Doc, db.held[d] # None, db'.held[d] = None
      PROVE  d \in away \/ slipped
  <2>1. rm.held[d] # None
    BY <1>1 DEF AccountInv, SessionInv
  <2>2. CASE CloseWindow
    <3>1. db'.held[d] = IF d \in Retired THEN None ELSE rm.held[d]
      BY <2>2 DEF CloseWindow, Retire
    <3>2. Complete /\ d \notin listed
      BY <1>1, <2>1, <3>1 DEF Retired
    <3>3. ~early /\ rows = {} /\ ~more /\ pc = "listing"
      BY <2>2, <3>2 DEF CloseWindow, Complete
    <3> QED BY <3>2, <3>3, <1>1 DEF AccountInv, ListingInv, Accounted
  <2>3. CASE \E e \in Doc : Create(e) \/ Edit(e) \/ Delete(e)
    BY <1>1, <2>3 DEF Create, Edit, Delete, Notice, store
  <2>4. CASE \E k \in Kinds, s \in Win : StartRun(k, s)
    <3>1. db' = rm' /\ rm'.held = rm.held
      BY <2>4, StoreFields DEF StartRun, TypeOK
    <3> QED BY <1>1, <2>1, <3>1
  <2>5. CASE RowStep
    BY <1>1, <2>1, <2>5 DEF RowStep, StopAtMark, PassOver, Resumed, Fetch, DetailGone, store
  <2>6. CASE OpenWindow \/ NextPage \/ Refused \/ Finish \/ Fail \/ Kill \/ UNCHANGED vars
    BY <1>1, <2>1, <2>6 DEF OpenWindow, NextPage, Refused, Finish, Fail, Kill, vars, store
  <2> QED BY <1>1, <2>2, <2>3, <2>4, <2>5, <2>6 DEF Next, SourceStep, PullStep
<1>2. TypeOK /\ AccountInv /\ [Next]_vars =>
        [\A d \in Doc : db.held[d] # None /\ db'.held[d] = None => d \in away \/ slipped]_vars
  BY <1>1
<1> QED BY <1>2, TypeCorrect, AccountInductive, PTL DEF Spec, RetireNeedsCause
-----------------------------------------------------------------------------
(* A listing that ends while the source stands still.                      *)

\* With the source as it was, a store is right after a step if it would be now.
LEMMA SameSource ==
  ASSUME UNCHANGED src
  PROVE  /\ \A w : Mirrors(rm, w)' <=> Mirrors(rm', w)
         /\ \A w : Mirrors(db, w)' <=> Mirrors(db', w)
         /\ \A d : CurrentIn(rm, d)' <=> CurrentIn(rm', d)
         /\ \A d, w : LiveIn(d, w)' <=> LiveIn(d, w)
         /\ \A d : Shown(d)' <=> Shown(d)
  BY DEF Mirrors, LiveIn, CurrentIn, Shown, Newest, ReadingOf

\* A run that begins keeps the store right: clearing the cursor claims less.
LEMMA UncursoredMirrors ==
  ASSUME NEW s \in Store, NEW w, Mirrors(s, w)
  PROVE  Mirrors([s EXCEPT !.cur = [d \in Doc |-> 0]], w)
  BY Uncursored DEF Mirrors, CurrentIn, Newest

\* What the cursor names at the stamp a document has is held as it is.
LEMMA KnownIsCurrent ==
  ASSUME TypeOK, StoreInv, NEW d \in Doc, Shown(d), rm.cur[d] # 0, rm.cur[d] = src[d].stamp
  PROVE  CurrentIn(rm, d)
<1>1. rm.held[d] # None /\ rm.cur[d] <= rm.held[d].ver
  BY DEF StoreInv, StoreGood, CursorIn
<1>2. rm.held[d].ver <= src[d].stamp
  BY <1>1 DEF StoreInv, StoreGood, VersionsIn
<1>3. rm.held[d].ver \in Nat /\ src[d].stamp \in Nat
  BY <1>1, StoreFields DEF TypeOK, HeldRow, Stamp
<1>4. rm.held[d].ver = src[d].stamp
  BY <1>1, <1>2, <1>3
<1> QED BY <1>1, <1>4 DEF StoreInv, StoreGood, VersionsIn

\* A fetch makes its document current and leaves the others.
LEMMA FetchMirrors ==
  ASSUME TypeOK, QuietListing, NEW r \in rows, Fetch(r)
  PROVE  /\ r.doc \in Doc /\ LiveIn(r.doc, win) /\ CurrentIn(rm', r.doc)
         /\ \A e \in Doc : CurrentIn(rm, e) => CurrentIn(rm', e)
         /\ \A w : Mirrors(rm, w) => Mirrors(rm', w)
<1> DEFINE d == r.doc
<1>1. d \in Doc /\ LiveIn(d, win)
  BY DEF TypeOK, Row, QuietListing, Fetch, LiveIn
<1>2. /\ rm'.held = [rm.held EXCEPT ![d] = Upserted(d)]
      /\ rm'.ev = [rm.ev EXCEPT ![d] = Recorded(d)]
      /\ rm'.cur = [rm.cur EXCEPT ![d] = Mark(r)]
  BY DEF Fetch
<1>3. /\ rm'.held[d] = Upserted(d) /\ rm'.ev[d] = Recorded(d)
      /\ \A e \in Doc \ {d} : rm'.held[e] = rm.held[e] /\ rm'.ev[e] = rm.ev[e]
                             /\ rm'.cur[e] = rm.cur[e]
  BY <1>1, <1>2, StoreFields DEF TypeOK
<1>4. Upserted(d) # None
  <2>1. Upserted(d) \in HeldRow
    BY <1>1, StoreFields DEF Upserted, TypeOK, HeldRow
  <2> QED BY <2>1, NoneAssumption
<1>5. CurrentIn(rm', d)
  <2>1. Newest(rm', d) = ReadingOf(d)
    BY <1>1, <1>3, RecordedLog DEF Newest
  <2> QED BY <1>3, <1>4, <2>1 DEF CurrentIn, Upserted
<1>6. ASSUME NEW e \in Doc, CurrentIn(rm, e) PROVE CurrentIn(rm', e)
  BY <1>3, <1>5, <1>6 DEF CurrentIn, Newest
<1>7. rm'.held[d].win = src[d].win
  BY <1>3 DEF Upserted
<1>8. ASSUME NEW w, Mirrors(rm, w) PROVE Mirrors(rm', w)
  <2>1. ASSUME NEW e \in Doc, rm'.held[e] # None, rm'.cur[e] # 0, rm'.held[e].win = w
        PROVE  LiveIn(e, w)
    <3>1. CASE e = d
      BY <1>1, <1>7, <2>1, <3>1 DEF LiveIn
    <3>2. CASE e # d
      BY <1>3, <1>8, <2>1, <3>2 DEF Mirrors
    <3> QED BY <3>1, <3>2
  <2> QED BY <1>6, <1>8, <2>1 DEF Mirrors
<1> QED BY <1>1, <1>5, <1>6, <1>8

\* A complete listing, swept, mirrors its window.
LEMMA CloseMirrors ==
  ASSUME TypeOK, AccountInv, QuietListing, CloseWindow, Complete
  PROVE  Mirrors(rm', win)
<1>1. /\ pc = "listing" /\ rows = {} /\ rm' = Retire(rm, Retired)
      /\ Retired = InWindow(win) \ listed /\ ~early /\ ~more
  BY DEF CloseWindow, Complete, Retired
<1>2. ASSUME NEW d \in Doc, LiveIn(d, win) PROVE d \in listed
  <2>1. d \notin away /\ ~slipped
    BY <1>2 DEF QuietListing
  <2> QED BY <1>1, <2>1 DEF AccountInv, ListingInv, Accounted
<1>3. ASSUME NEW d \in Doc, LiveIn(d, win) PROVE CurrentIn(rm', d)
  <2>1. d \notin Retired /\ CurrentIn(rm, d)
    BY <1>1, <1>2, <1>3 DEF QuietListing
  <2> QED BY <1>1, <2>1 DEF Retire, CurrentIn, Newest
<1>4. ASSUME NEW d \in Doc, rm'.held[d] # None, rm'.cur[d] # 0, rm'.held[d].win = win
      PROVE  LiveIn(d, win)
  <2>1. d \notin Retired /\ rm.held[d] # None /\ rm.cur[d] # 0 /\ rm.held[d].win = win
    BY <1>1, <1>4 DEF Retire
  <2>2. CASE d \in listed
    BY <2>2 DEF QuietListing
  <2>3. CASE d \notin listed
    <3>1. db.held[d] = rm.held[d] /\ db.cur[d] = rm.cur[d]
      BY <2>3 DEF AccountInv, SessionInv
    <3>2. d \in InWindow(win)
      BY <2>1, <3>1 DEF InWindow
    <3> QED BY <1>1, <2>1, <2>3, <3>2
  <2> QED BY <2>2, <2>3
<1> QED BY <1>3, <1>4 DEF Mirrors

\* And leaves the windows that were right as they are.
LEMMA CloseKeeps ==
  ASSUME TypeOK, AccountInv, QuietListing, CloseWindow,
         NEW w, Mirrors(rm, w), Mirrors(db, w)
  PROVE  Mirrors(rm', w)
<1>1. /\ pc = "listing" /\ rows = {} /\ rm' = Retire(rm, Retired)
      /\ Retired \subseteq {d \in Doc : db.held[d].win = win}
  BY DEF CloseWindow, Retired, InWindow
<1>2. ASSUME NEW d \in Doc, LiveIn(d, w) PROVE d \notin Retired
  <2>1. CASE w = win
    <3>1. Complete => ~early /\ ~more
      BY DEF CloseWindow, Complete
    <3>2. d \notin away /\ ~slipped
      BY <1>2, <2>1 DEF QuietListing
    <3>3. Complete => d \in listed
      BY <1>1, <3>1, <3>2 DEF AccountInv, ListingInv, Accounted
    <3> QED BY <3>3 DEF Retired
  <2>2. CASE w # win
    <3>1. db.held[d].win = w
      BY <1>2 DEF Mirrors, CurrentIn, LiveIn
    <3> QED BY <1>1, <2>2, <3>1
  <2> QED BY <2>1, <2>2
<1>3. ASSUME NEW d \in Doc, LiveIn(d, w) PROVE CurrentIn(rm', d)
  BY <1>1, <1>2, <1>3 DEF Mirrors, Retire, CurrentIn, Newest
<1>4. ASSUME NEW d \in Doc, rm'.held[d] # None, rm'.cur[d] # 0, rm'.held[d].win = w
      PROVE  LiveIn(d, w)
  BY <1>1, <1>4 DEF Mirrors, Retire
<1> QED BY <1>3, <1>4 DEF Mirrors

\* A run that ends, its session as committed or given up.
LEMMA EndQuiet ==
  ASSUME QuietInv, EndRun, UNCHANGED src, rm' \in {rm, db}, db' \in {rm, db},
         last' = last \/ (quiet /\ last' = [kind |-> kind, since |-> since, whole |-> whole])
  PROVE  QuietInv'
<1>1. pc' = "idle" /\ ~quiet'
  BY DEF EndRun
<1>2. last' # None => Mirrored(last'.whole)
  BY DEF QuietInv
<1>3. last' # None => Mirrored(last.whole)'
  BY <1>2, SameSource DEF Mirrored
<1> QED BY <1>1, <1>3 DEF QuietInv

\* A step of a listing that leaves the store as it is.
LEMMA QuietKept ==
  ASSUME QuietInv, UNCHANGED <<src, rm, db, whole, quiet, last>>,
         pc' # "idle" => pc # "idle" \/ last = None,
         pc' = "listing" /\ quiet => QuietListing'
  PROVE  QuietInv'
<1>1. Mirrored(whole) => Mirrored(whole)'
  BY SameSource DEF Mirrored
<1>2. last # None => (Mirrored(last.whole) => Mirrored(last.whole)')
  BY SameSource DEF Mirrored
<1> QED BY <1>1, <1>2 DEF QuietInv

LEMMA QuietStep ==
  ASSUME TypeOK, StoreInv, AccountInv, QuietInv, [Next]_vars
  PROVE  QuietInv'
<1>1. CASE SourceStep
  BY <1>1 DEF SourceStep, Create, Edit, Delete, Notice, QuietInv, Mirrored
<1>2. ASSUME NEW k \in Kinds, NEW s \in Win, StartRun(k, s) PROVE QuietInv'
  <2>1. /\ pc' = "window" /\ quiet' /\ whole' = {} /\ UNCHANGED <<src, last>>
        /\ rm' \in {rm, [rm EXCEPT !.cur = [d \in Doc |-> 0]]} /\ db' = rm'
    BY <1>2 DEF StartRun, source
  <2>2. ASSUME NEW w, Mirrors(rm, w) PROVE Mirrors(rm', w) /\ Mirrors(db', w)
    BY <2>1, <2>2, UncursoredMirrors DEF TypeOK
  <2>3. last # None => Mirrored(last.whole)'
    BY <2>1, <2>2, SameSource DEF QuietInv, Mirrored
  <2> QED BY <2>1, <2>3 DEF QuietInv, Mirrored
<1>3. CASE OpenWindow
  <2>1. PICK m \in Stamp : rows' = PageRows(1, win, m)
    BY <1>3 DEF OpenWindow
  <2>2. /\ pc = "window" /\ UNCHANGED <<src, rm, db, win, whole, quiet, last>>
        /\ listed' = {} /\ ~slipped'
        /\ away' = {d \in Doc : src[d].status # "live" \/ src[d].win # win}
        /\ known' \in {rm.cur, Nothing.cur}
    BY <1>3 DEF OpenWindow, source, store
  <2>3. \A r \in rows' : /\ r.stamp = src[r.doc].stamp /\ (r.live <=> src[r.doc].status = "live")
                         /\ src[r.doc].win = win
    BY <2>1, PageStamps DEF TypeOK, Book
  <2>4. ASSUME NEW d \in Doc, known'[d] # 0, Shown(d), known'[d] = src[d].stamp
        PROVE  CurrentIn(rm, d)
    BY <2>2, <2>4, KnownIsCurrent DEF Nothing
  <2>5. QuietListing'
    <3>1. \A d \in Doc : d \in away' <=> ~LiveIn(d, win)
      BY <2>2 DEF LiveIn
    <3> QED BY <2>2, <2>3, <2>4, <3>1, SameSource DEF QuietListing
  <2> QED BY <2>2, <2>5, QuietKept
<1>4. CASE NextPage
  <2>1. /\ pc = "listing" /\ pc' = "listing" /\ page + 1 \in Nat
        /\ UNCHANGED <<src, rm, db, win, whole, quiet, last, listed, known, away, slipped>>
        /\ rows' = PageRows(page + 1, win, mark)
    BY <1>4 DEF NextPage, source, store, run, history, TypeOK
  <2>2. \A r \in rows' : /\ r.stamp = src[r.doc].stamp /\ (r.live <=> src[r.doc].status = "live")
                         /\ src[r.doc].win = win
    BY <2>1, PageStamps DEF TypeOK, Book
  <2>3. QuietListing => QuietListing'
    BY <2>1, <2>2, SameSource DEF QuietListing
  <2> QED BY <2>1, <2>3, QuietKept DEF QuietInv
<1>5. ASSUME NEW r \in rows, StopAtMark(r) \/ PassOver(r) \/ Resumed(r) PROVE QuietInv'
  <2>1. /\ pc = "listing" /\ pc' = "listing" /\ rows' \subseteq rows
        /\ UNCHANGED <<src, rm, db, win, whole, quiet, last, known, away, slipped>>
    BY <1>5 DEF StopAtMark, PassOver, Resumed, IsNext, source, store, run, history
  <2>2. \/ listed' = listed
        \/ listed' = listed \cup {r.doc} /\ r.live /\ AlreadyHave(r)
    BY <1>5 DEF StopAtMark, PassOver, Resumed
  <2>3. ASSUME QuietListing, r.live, AlreadyHave(r)
        PROVE  LiveIn(r.doc, win) /\ CurrentIn(rm, r.doc)
    <3>1. r.doc \in Doc /\ LiveIn(r.doc, win) /\ r.stamp = src[r.doc].stamp
      BY <2>3 DEF TypeOK, Row, QuietListing, LiveIn
    <3>2. known[r.doc] # 0 /\ known[r.doc] = src[r.doc].stamp /\ Shown(r.doc)
      BY <2>3, <3>1 DEF AlreadyHave, LiveIn, Shown
    <3> QED BY <2>3, <3>1, <3>2 DEF QuietListing
  <2>4. QuietListing => QuietListing'
    BY <2>1, <2>2, <2>3, SameSource DEF QuietListing
  <2> QED BY <2>1, <2>4, QuietKept DEF QuietInv
<1>6. ASSUME NEW r \in rows, Fetch(r) PROVE QuietInv'
  <2>1. /\ pc = "listing" /\ pc' = "listing" /\ rows' \subseteq rows
        /\ listed' = listed \cup {r.doc}
        /\ UNCHANGED <<src, db, win, whole, quiet, last, known, away, slipped>>
    BY <1>6 DEF Fetch, IsNext, source, run, history
  <2>2. quiet \/ last = None
    BY <2>1 DEF QuietInv
  <2>3. CASE quiet
    <3>1. QuietListing
      BY <2>1, <2>3 DEF QuietInv
    <3>2. QuietListing'
      <4>1. /\ ~slipped'
            /\ \A d \in Doc : d \in away' <=> ~LiveIn(d, win)'
            /\ \A q \in rows' : /\ q.stamp = src'[q.doc].stamp
                               /\ (q.live <=> src'[q.doc].status = "live")
                               /\ src'[q.doc].win = win'
        BY <2>1, <3>1 DEF QuietListing, LiveIn
      <4>2. \A d \in listed' : LiveIn(d, win) /\ CurrentIn(rm', d)
        <5>1. listed \subseteq Doc
          BY DEF TypeOK
        <5> QED BY <1>6, <2>1, <3>1, <5>1, FetchMirrors DEF QuietListing
      <4>3. \A d \in Doc : known[d] # 0 /\ Shown(d) /\ known[d] = src[d].stamp
                            => CurrentIn(rm', d)
        BY <1>6, <3>1, FetchMirrors DEF QuietListing
      <4>4. /\ \A d \in listed' : LiveIn(d, win)' /\ CurrentIn(rm, d)'
            /\ \A d \in Doc : known'[d] # 0 /\ Shown(d)' /\ known'[d] = src'[d].stamp
                               => CurrentIn(rm, d)'
        BY <2>1, <4>2, <4>3, SameSource DEF LiveIn, Shown
      <4> QED BY <4>1, <4>4 DEF QuietListing
    <3>3. ASSUME NEW w, Mirrors(rm, w), Mirrors(db, w) PROVE Mirrors(rm, w)' /\ Mirrors(db, w)'
      BY <1>6, <2>1, <3>1, <3>3, FetchMirrors, SameSource
    <3>4. Mirrored(whole)'
      BY <2>1, <2>3, <3>3 DEF QuietInv, Mirrored
    <3>5. last # None => Mirrored(last.whole)'
      BY <2>1, <3>3 DEF QuietInv, Mirrored
    <3> QED BY <2>1, <2>3, <3>2, <3>4, <3>5 DEF QuietInv
  <2>4. CASE ~quiet
    BY <2>1, <2>2, <2>4 DEF QuietInv
  <2> QED BY <2>3, <2>4
<1>7. CASE CloseWindow
  <2>1. /\ pc = "listing" /\ pc' \in {"window", "finishing"} /\ db' = rm'
        /\ UNCHANGED <<src, quiet, last>>
        /\ whole' = IF quiet /\ Complete THEN whole \cup {win} ELSE whole
    BY <1>7 DEF CloseWindow, source
  <2>2. CASE quiet
    <3>1. QuietListing
      BY <2>1, <2>2 DEF QuietInv
    <3>2. ASSUME NEW w, Mirrors(rm, w), Mirrors(db, w) PROVE Mirrors(rm, w)' /\ Mirrors(db, w)'
      BY <1>7, <2>1, <3>1, <3>2, CloseKeeps, SameSource
    <3>3. ASSUME NEW w \in whole' PROVE Mirrors(rm, w)' /\ Mirrors(db, w)'
      <4>1. CASE w \in whole
        BY <2>2, <3>2, <4>1 DEF QuietInv, Mirrored
      <4>2. CASE w \notin whole
        <5>1. Complete /\ w = win
          BY <2>1, <3>3, <4>2
        <5>2. Mirrors(rm', w)
          BY <1>7, <3>1, <5>1, CloseMirrors
        <5> QED BY <2>1, <5>2, SameSource
      <4> QED BY <4>1, <4>2
    <3>4. last # None => Mirrored(last.whole)'
      BY <2>1, <3>2 DEF QuietInv, Mirrored
    <3> QED BY <2>1, <2>2, <3>3, <3>4 DEF QuietInv, Mirrored
  <2>3. CASE ~quiet
    BY <2>1, <2>3 DEF QuietInv
  <2> QED BY <2>2, <2>3
<1>8. ASSUME NEW r \in rows, DetailGone(r) PROVE QuietInv'
  BY <1>8, EndQuiet DEF DetailGone, source
<1>9. CASE Refused
  BY <1>9, EndQuiet DEF Refused, source
<1>10. CASE Finish
  BY <1>10, EndQuiet DEF Finish, source
<1>11. CASE Fail
  BY <1>11, EndQuiet DEF Fail, source
<1>12. CASE Kill
  BY <1>12, EndQuiet DEF Kill, source
<1>13. CASE UNCHANGED vars
  <2>1. UNCHANGED <<src, rm, db, pc, win, whole, quiet, last, rows, listed, known, away, slipped>>
    BY <1>13 DEF vars, source, store, run, listing, history
  <2>2. QuietListing => QuietListing'
    BY <2>1, SameSource DEF QuietListing
  <2> QED BY <2>1, <2>2, QuietKept DEF QuietInv
<1> QED
  BY <1>1, <1>2, <1>3, <1>4, <1>5, <1>6, <1>7, <1>8, <1>9, <1>10, <1>11, <1>12, <1>13
     DEF Next, PullStep, RowStep

LEMMA QuietInductive == Spec => []QuietInv
<1>1. Init => QuietInv
  BY DEF Init, QuietInv, Mirrored
<1>2. TypeOK /\ StoreInv /\ AccountInv /\ QuietInv /\ [Next]_vars => QuietInv'
  BY QuietStep
<1> QED BY <1>1, <1>2, TypeCorrect, StoreInductive, AccountInductive, PTL DEF Spec

-----------------------------------------------------------------------------
(* How often a document is read.                                           *)

OnPages(d) == Rank(d, win, mark) \div PageSize < page

\* A listing of a source that stands still shows each document once, so a commit
\* has one reading of each; a rebuild skips none.
OnceListing ==
  /\ \A d \in listed : OnPages(d)
  /\ \A r \in rows : r.doc \notin listed /\ OnPages(r.doc)
  /\ \A d \in fresh : Len(rm.ev[d]) = 1
  /\ kind = "rebuild" => listed \subseteq fresh /\ \A d \in Doc : known[d] = 0

\* The log has one reading of each document of a window.
Sole(s, w) == \A d \in Doc : LiveIn(d, w) => Len(s.ev[d]) = 1

OnceInv ==
  /\ pc = "listing" /\ quiet => OnceListing
  /\ quiet /\ kind = "rebuild" => \A w \in whole : Sole(rm, w) /\ Sole(db, w)
  /\ last # None /\ last.kind = "rebuild" =>
       \A w \in last.whole : Sole(rm, w) /\ Sole(db, w)

LEMMA SameSole ==
  ASSUME UNCHANGED src
  PROVE  \A w : (Sole(rm, w)' <=> Sole(rm', w)) /\ (Sole(db, w)' <=> Sole(db', w))
  BY DEF Sole, LiveIn

\* The rows of page n are of one document each, and of that page's ranks.
LEMMA PageRanks ==
  ASSUME TypeOK, NEW n \in Nat, NEW w \in Win, NEW m \in Stamp, NEW r \in PageRows(n, w, m)
  PROVE  Rank(r.doc, w, m) \div PageSize = n - 1
<1>1. PICK d \in Book(w) :
        /\ Rank(d, w, m) \div PageSize = n - 1
        /\ r = [doc |-> d, stamp |-> src[d].stamp, live |-> src[d].status = "live"]
  BY DEF PageRows
<1> QED BY <1>1

\* Two rows of one document are one row.
LEMMA OneRowEach ==
  ASSUME TypeOK, QuietListing, NEW r \in rows, NEW q \in rows, r.doc = q.doc
  PROVE  r = q
<1>1. r \in Row /\ q \in Row
  BY DEF TypeOK
<1>2. r.stamp = q.stamp /\ r.live = q.live
  BY <1>1 DEF QuietListing, Row
<1> QED BY <1>1, <1>2 DEF Row

\* A run that ends, its session as committed or given up.
LEMMA EndOnce ==
  ASSUME OnceInv, EndRun, UNCHANGED src, rm' \in {rm, db}, db' \in {rm, db},
         last' = last \/ (quiet /\ last' = [kind |-> kind, since |-> since, whole |-> whole])
  PROVE  OnceInv'
<1>1. ~quiet'
  BY DEF EndRun
<1>2. ASSUME last' # None, last'.kind = "rebuild", NEW w \in last'.whole
      PROVE  Sole(rm, w)' /\ Sole(db, w)'
  <2>1. Sole(rm, w) /\ Sole(db, w)
    BY <1>2 DEF OnceInv
  <2> QED BY <2>1, SameSole
<1> QED BY <1>1, <1>2 DEF OnceInv

\* A step that leaves the source, the store and the outcomes as they are.
LEMMA OnceKept ==
  ASSUME OnceInv, UNCHANGED <<src, rm, db, kind, whole, quiet, last>>,
         pc' = "listing" /\ quiet => OnceListing'
  PROVE  OnceInv'
<1>1. \A w : (Sole(rm, w)' <=> Sole(rm, w)) /\ (Sole(db, w)' <=> Sole(db, w))
  BY SameSole
<1> QED BY <1>1 DEF OnceInv

\* A reading while the source stands still is the first of its document in the commit.
LEMMA FetchOnce ==
  ASSUME TypeOK, AccountInv, OnceListing, NEW r \in rows, Fetch(r)
  PROVE  /\ r.doc \in Doc /\ Len(rm'.ev[r.doc]) = 1
         /\ \A e \in Doc \ {r.doc} : rm'.ev[e] = rm.ev[e]
<1>1. r.doc \in Doc /\ r.doc \notin fresh
  BY DEF TypeOK, Row, AccountInv, SessionInv, OnceListing
<1>2. rm'.ev = [rm.ev EXCEPT ![r.doc] = Recorded(r.doc)]
  BY DEF Fetch
<1>3. rm'.ev[r.doc] = Recorded(r.doc) /\ \A e \in Doc \ {r.doc} : rm'.ev[e] = rm.ev[e]
  BY <1>1, <1>2, StoreFields DEF TypeOK
<1> QED BY <1>1, <1>3, RecordedLog

LEMMA OnceStep ==
  ASSUME TypeOK, TypeOK', StoreInv, AccountInv, QuietInv, OnceInv, [Next]_vars
  PROVE  OnceInv'
<1>1. CASE SourceStep
  BY <1>1 DEF SourceStep, Create, Edit, Delete, Notice, OnceInv
<1>2. ASSUME NEW k \in Kinds, NEW s \in Win, StartRun(k, s) PROVE OnceInv'
  <2>1. pc' = "window" /\ whole' = {} /\ UNCHANGED <<src, last>> /\ db' = rm' /\ rm'.ev = rm.ev
    BY <1>2, Uncursored DEF StartRun, source, TypeOK
  <2>2. \A w : Sole(rm, w) => Sole(rm', w) /\ Sole(db', w)
    BY <2>1 DEF Sole
  <2> QED BY <2>1, <2>2, SameSole DEF OnceInv
<1>3. CASE OpenWindow
  <2>1. PICK m \in Stamp : mark' = m /\ rows' = PageRows(1, win, m)
    BY <1>3 DEF OpenWindow
  <2>2. /\ pc = "window" /\ UNCHANGED <<src, rm, db, win, kind, whole, quiet, last, fresh>>
        /\ listed' = {} /\ page' = 1
        /\ kind = "rebuild" => known' = Nothing.cur
    BY <1>3 DEF OpenWindow, source, store, txn, Resume
  <2>3. fresh = {}
    BY <2>2 DEF AccountInv, SessionInv
  <2>4. \A d \in Doc : Rank(d, win, mark)' = Rank(d, win, m)
    BY <2>1, <2>2 DEF Rank, Book, Shown, Precedes
  <2>5. ASSUME NEW r \in rows' PROVE OnPages(r.doc)'
    <3>1. r.doc \in Doc /\ win \in Win
      BY <2>5 DEF TypeOK, Row
    <3>2. Rank(r.doc, win, m) \div PageSize = 0
      BY <2>1, <2>5, <3>1, PageRanks
    <3> QED BY <2>2, <2>4, <3>1, <3>2 DEF OnPages
  <2>6. kind = "rebuild" => \A d \in Doc : known'[d] = 0
    BY <2>2 DEF Nothing
  <2>7. OnceListing'
    BY <2>2, <2>3, <2>5, <2>6 DEF OnceListing
  <2> QED BY <2>2, <2>7, OnceKept
<1>4. CASE NextPage
  <2>1. /\ pc = "listing" /\ page + 1 \in Nat /\ page \in Nat /\ page' = page + 1 /\ rows = {}
        /\ UNCHANGED <<src, rm, db, win, mark, kind, whole, quiet, last, listed, fresh, known>>
        /\ rows' = PageRows(page + 1, win, mark)
    BY <1>4 DEF NextPage, source, store, run, txn, history, TypeOK
  <2>2. ASSUME quiet PROVE OnceListing'
    <3>1. OnceListing /\ QuietListing
      BY <2>1, <2>2 DEF OnceInv, QuietInv
    <3>2. \A d \in Doc : Rank(d, win, mark)' = Rank(d, win, mark)
      BY <2>1 DEF Rank, Book, Shown, Precedes
    <3>3. ASSUME NEW d \in listed PROVE OnPages(d)'
      <4>1. d \in Doc /\ LiveIn(d, win) /\ win \in Win /\ mark \in Stamp
        BY <3>1, <3>3 DEF TypeOK, QuietListing
      <4>2. Rank(d, win, mark) \div PageSize \in Nat
        BY <4>1, RankType
      <4>3. Rank(d, win, mark) \div PageSize < page
        BY <3>1, <3>3 DEF OnceListing, OnPages
      <4> QED BY <2>1, <3>2, <4>1, <4>2, <4>3 DEF OnPages
    <3>4. ASSUME NEW r \in rows' PROVE r.doc \notin listed /\ OnPages(r.doc)'
      <4>1. r.doc \in Doc /\ win \in Win /\ mark \in Stamp
        BY <3>4 DEF TypeOK, Row
      <4>2. Rank(r.doc, win, mark) \div PageSize = page
        BY <2>1, <3>4, <4>1, PageRanks
      <4>3. r.doc \notin listed
        BY <2>1, <3>1, <4>2 DEF OnceListing, OnPages
      <4> QED BY <2>1, <3>2, <4>1, <4>2, <4>3 DEF OnPages
    <3> QED BY <2>1, <3>1, <3>3, <3>4 DEF OnceListing
  <2> QED BY <2>1, <2>2, OnceKept
<1>5. ASSUME NEW r \in rows, StopAtMark(r) \/ PassOver(r) \/ Resumed(r) PROVE OnceInv'
  <2>1. /\ pc = "listing"
        /\ UNCHANGED <<src, rm, db, win, mark, kind, whole, quiet, last, fresh, known, page>>
    BY <1>5 DEF StopAtMark, PassOver, Resumed, IsNext, source, store, run, txn, history
  <2>2. \/ rows' = {} /\ listed' = listed
        \/ rows' = rows \ {r} /\ listed' = listed
        \/ rows' = rows \ {r} /\ listed' = listed \cup {r.doc} /\ AlreadyHave(r)
    BY <1>5 DEF StopAtMark, PassOver, Resumed
  <2>3. ASSUME quiet PROVE OnceListing'
    <3>1. OnceListing /\ QuietListing /\ r.doc \in Doc
      BY <2>1, <2>3 DEF OnceInv, QuietInv, TypeOK, Row
    <3>2. \A d : OnPages(d)' <=> OnPages(d)
      BY <2>1 DEF OnPages, Rank, Book, Shown, Precedes
    <3>3. kind = "rebuild" => ~AlreadyHave(r)
      BY <3>1 DEF OnceListing, AlreadyHave
    <3>4. \A q \in rows \ {r} : q.doc # r.doc
      BY <3>1, OneRowEach
    <3> QED BY <2>1, <2>2, <3>1, <3>2, <3>3, <3>4 DEF OnceListing
  <2> QED BY <2>1, <2>3, OnceKept
<1>6. ASSUME NEW r \in rows, Fetch(r) PROVE OnceInv'
  <2>1. /\ pc = "listing" /\ pc' = "listing" /\ rows' = rows \ {r}
        /\ listed' = listed \cup {r.doc} /\ fresh' = fresh \cup {r.doc}
        /\ UNCHANGED <<src, db, win, mark, kind, whole, quiet, last, known, page>>
    BY <1>6 DEF Fetch, IsNext, source, run, history
  <2>2. CASE quiet
    <3>1. OnceListing /\ QuietListing
      BY <2>1, <2>2 DEF OnceInv, QuietInv
    <3>2. \A d : OnPages(d)' <=> OnPages(d)
      BY <2>1 DEF OnPages, Rank, Book, Shown, Precedes
    <3>3. \A q \in rows \ {r} : q.doc # r.doc
      BY <3>1, OneRowEach
    <3>4. /\ r.doc \in Doc /\ Len(rm'.ev[r.doc]) = 1
          /\ \A e \in Doc \ {r.doc} : rm'.ev[e] = rm.ev[e]
      BY <1>6, <3>1, FetchOnce
    <3>5. \A d \in fresh' : Len(rm'.ev[d]) = 1
      <4>1. fresh \subseteq Doc
        BY DEF TypeOK
      <4> QED BY <2>1, <3>1, <3>4, <4>1 DEF OnceListing
    <3>6. OnceListing'
      BY <2>1, <3>1, <3>2, <3>3, <3>5 DEF OnceListing
    <3>7. \A w : Sole(rm, w) => Sole(rm', w)
      BY <3>4 DEF Sole
    <3>8. \A w : Sole(db, w) => Sole(db, w)'
      BY <2>1, SameSole
    <3> QED BY <2>1, <3>6, <3>7, <3>8, SameSole DEF OnceInv
  <2>3. CASE ~quiet
    <3>1. last = None
      BY <2>1, <2>3 DEF QuietInv
    <3> QED BY <2>1, <2>3, <3>1 DEF OnceInv
  <2> QED BY <2>2, <2>3
<1>7. CASE CloseWindow
  <2>1. /\ pc = "listing" /\ pc' \in {"window", "finishing"} /\ db' = rm'
        /\ rm' = Retire(rm, Retired) /\ rows = {}
        /\ UNCHANGED <<src, kind, quiet, last>>
        /\ whole' = IF quiet /\ Complete THEN whole \cup {win} ELSE whole
    BY <1>7 DEF CloseWindow, source
  <2>2. CASE quiet
    <3>1. OnceListing /\ QuietListing
      BY <2>1, <2>2 DEF OnceInv, QuietInv
    <3>2. ASSUME NEW w, Sole(rm, w), Mirrors(rm, w), Mirrors(db, w)
          PROVE  Sole(rm, w)' /\ Sole(db, w)'
      <4>1. Mirrors(rm', w)
        BY <1>7, <3>1, <3>2, CloseKeeps
      <4>2. ASSUME NEW d \in Doc, LiveIn(d, w) PROVE Len(rm'.ev[d]) = 1
        <5>1. d \notin Retired
          BY <2>1, <4>1, <4>2 DEF Mirrors, CurrentIn, Retire
        <5> QED BY <2>1, <3>2, <4>2, <5>1 DEF Sole, Retire
      <4>3. Sole(rm', w)
        BY <4>2 DEF Sole
      <4> QED BY <2>1, <4>3, SameSole
    <3>3. ASSUME kind = "rebuild", Complete PROVE Sole(rm, win)
      <4>1. ASSUME NEW d \in Doc, LiveIn(d, win) PROVE d \in listed
        <5>1. d \notin away /\ ~slipped
          BY <3>1, <4>1 DEF QuietListing
        <5>2. ~early /\ ~more
          BY <1>7, <3>3 DEF CloseWindow, Complete
        <5> QED BY <2>1, <5>1, <5>2 DEF AccountInv, ListingInv, Accounted
      <4> QED BY <3>1, <3>3, <4>1 DEF OnceListing, Sole
    <3>4. ASSUME kind = "rebuild", NEW w \in whole' PROVE Sole(rm, w)' /\ Sole(db, w)'
      <4>1. CASE w \in whole
        BY <2>2, <3>2, <3>4, <4>1 DEF OnceInv, QuietInv, Mirrored
      <4>2. CASE w \notin whole
        <5>1. Complete /\ w = win
          BY <2>1, <3>4, <4>2
        <5>2. Sole(rm, w) /\ Mirrors(rm', w)
          BY <1>7, <3>1, <3>3, <3>4, <5>1, CloseMirrors
        <5>3. ASSUME NEW d \in Doc, LiveIn(d, w) PROVE Len(rm'.ev[d]) = 1
          <6>1. d \notin Retired
            BY <2>1, <5>2, <5>3 DEF Mirrors, CurrentIn, Retire
          <6> QED BY <2>1, <5>2, <5>3, <6>1 DEF Sole, Retire
        <5>4. Sole(rm', w)
          BY <5>3 DEF Sole
        <5> QED BY <2>1, <5>4, SameSole
      <4> QED BY <4>1, <4>2
    <3>5. last # None /\ last.kind = "rebuild" =>
            \A w \in last.whole : Sole(rm, w)' /\ Sole(db, w)'
      BY <3>2 DEF OnceInv, QuietInv, Mirrored
    <3> QED BY <2>1, <3>4, <3>5 DEF OnceInv
  <2>3. CASE ~quiet
    <3>1. last = None
      BY <2>1, <2>3 DEF QuietInv
    <3> QED BY <2>1, <2>3, <3>1 DEF OnceInv
  <2> QED BY <2>2, <2>3
<1>8. ASSUME NEW r \in rows, DetailGone(r) PROVE OnceInv'
  BY <1>8, EndOnce DEF DetailGone, source
<1>9. CASE Refused
  BY <1>9, EndOnce DEF Refused, source
<1>10. CASE Finish
  BY <1>10, EndOnce DEF Finish, source
<1>11. CASE Fail
  BY <1>11, EndOnce DEF Fail, source
<1>12. CASE Kill
  BY <1>12, EndOnce DEF Kill, source
<1>13. CASE UNCHANGED vars
  <2>1. UNCHANGED <<src, rm, db, pc, kind, win, mark, whole, quiet, last, rows, listed, known,
                    fresh, page>>
    BY <1>13 DEF vars, source, store, run, listing, txn, history
  <2>2. \A d : OnPages(d)' <=> OnPages(d)
    BY <2>1 DEF OnPages, Rank, Book, Shown, Precedes
  <2>3. OnceListing => OnceListing'
    BY <2>1, <2>2 DEF OnceListing
  <2> QED BY <2>1, <2>3, OnceKept DEF OnceInv
<1> QED
  BY <1>1, <1>2, <1>3, <1>4, <1>5, <1>6, <1>7, <1>8, <1>9, <1>10, <1>11, <1>12, <1>13
     DEF Next, PullStep, RowStep

LEMMA OnceInductive == Spec => []OnceInv
<1>1. Init => OnceInv
  BY DEF Init, OnceInv
<1>2. TypeOK /\ TypeOK' /\ StoreInv /\ AccountInv /\ QuietInv /\ OnceInv /\ [Next]_vars => OnceInv'
  BY OnceStep
<1> QED
  BY <1>1, <1>2, TypeCorrect, StoreInductive, AccountInductive, QuietInductive, PTL DEF Spec

\* EventLog.supersede, for any book, page size and number of runs: a commit leaves two
\* live readings of a document only if the source changed while the run was going.
THEOREM SecondReadingSafe == Spec => SecondReadingNeedsCause
<1>1. ASSUME TypeOK, AccountInv, OnceInv, [Next]_vars,
             NEW d \in Doc, Len(db'.ev[d]) > 1, quiet
      PROVE  db'.ev[d] = db.ev[d]
  <2>1. CASE db' = db
    BY <2>1
  <2>2. ASSUME pc = "listing", db' = rm \/ db' = Retire(rm, Retired) PROVE db'.ev[d] = db.ev[d]
    <3>1. db'.ev[d] = rm.ev[d] \/ db'.ev[d] = <<>>
      BY <2>2 DEF Retire
    <3>2. db'.ev[d] = rm.ev[d]
      BY <1>1, <3>1
    <3>3. OnceListing
      BY <1>1, <2>2 DEF OnceInv
    <3>4. d \notin fresh
      <4>1. d \in fresh => Len(rm.ev[d]) = 1
        BY <3>3 DEF OnceListing
      <4>2. Len(rm.ev[d]) # 1
        <5>1. Len(rm.ev[d]) \in Nat
          <6>1. rm.ev[d] \in Seq(Reading)
            BY <1>1, StoreFields DEF TypeOK
          <6> QED BY <6>1
        <5>2. PICK n \in Nat : n = Len(rm.ev[d])
          BY <5>1
        <5>3. n > 1
          BY <1>1, <3>2, <5>2, Zenon
        <5>4. n # 1
          BY <5>3
        <5> QED BY <5>2, <5>4
      <4> QED BY <4>1, <4>2
    <3> QED BY <1>1, <3>2, <3>4 DEF AccountInv, SessionInv
  <2>3. ASSUME NEW k \in Kinds, NEW s \in Win, StartRun(k, s) PROVE db'.ev[d] = db.ev[d]
    <3>1. rm = db
      BY <1>1, <2>3 DEF StartRun, AccountInv, SessionInv
    <3>2. db' = rm' /\ rm' \in {rm, [rm EXCEPT !.cur = [e \in Doc |-> 0]]}
      BY <2>3 DEF StartRun
    <3>3. rm \in Store
      BY <1>1 DEF TypeOK
    <3>4. \A t : t = [rm EXCEPT !.cur = [e \in Doc |-> 0]] => t.ev = rm.ev
      BY <3>3, Uncursored
    <3>5. rm'.ev = rm.ev
      BY <3>2, <3>4
    <3> QED BY <3>1, <3>2, <3>5
  <2>4. CASE CloseWindow
    BY <2>2, <2>4 DEF CloseWindow
  <2>5. ASSUME NEW r \in rows, DetailGone(r) PROVE db'.ev[d] = db.ev[d]
    BY <2>1, <2>2, <2>5 DEF DetailGone, IsNext
  <2>6. CASE Fail
    <3>1. pc # "listing" => rm = db
      BY <1>1 DEF AccountInv, SessionInv
    <3> QED BY <2>1, <2>2, <2>6, <3>1 DEF Fail
  <2>7. CASE \E e \in Doc : Create(e) \/ Edit(e) \/ Delete(e)
    BY <2>1, <2>7 DEF Create, Edit, Delete, Notice, store
  <2>8. CASE \E r \in rows : StopAtMark(r) \/ PassOver(r) \/ Resumed(r) \/ Fetch(r)
    BY <2>1, <2>8 DEF StopAtMark, PassOver, Resumed, Fetch, store
  <2>9. CASE OpenWindow \/ NextPage \/ Refused \/ Finish \/ Kill \/ UNCHANGED vars
    BY <2>1, <2>9 DEF OpenWindow, NextPage, Refused, Finish, Kill, vars, store
  <2> QED
    BY <1>1, <2>3, <2>4, <2>5, <2>6, <2>7, <2>8, <2>9 DEF Next, SourceStep, PullStep, RowStep
<1>2. TypeOK /\ AccountInv /\ OnceInv /\ [Next]_vars =>
        [\A d \in Doc : Len(db'.ev[d]) > 1 => db'.ev[d] = db.ev[d] \/ ~quiet]_vars
  BY <1>1
<1> QED
  BY <1>2, TypeCorrect, AccountInductive, OnceInductive, PTL DEF Spec, SecondReadingNeedsCause

\* execute_sync, _documents, _skipper: an OK run mirrors what it listed to the
\* end while the source stood still, a rebuild down to one reading of each document,
\* and no later run, however it ends, undoes it.
THEOREM MirrorSafe == Spec => []FullListingMirrors
<1>1. ASSUME QuietInv, OnceInv, last # None,
             NEW d \in Doc, src[d].status = "live", src[d].win \in last.whole
      PROVE  Current(d) /\ (last.kind = "rebuild" => Len(db.ev[d]) = 1)
  <2>1. LiveIn(d, src[d].win)
    BY <1>1 DEF LiveIn
  <2>2. Current(d)
    BY <1>1, <2>1 DEF QuietInv, Mirrored, Mirrors, Current
  <2>3. last.kind = "rebuild" => Len(db.ev[d]) = 1
    BY <1>1, <2>1 DEF OnceInv, Sole
  <2> QED BY <2>2, <2>3
<1>2. QuietInv /\ OnceInv => FullListingMirrors
  BY <1>1 DEF FullListingMirrors
<1> QED BY <1>2, QuietInductive, OnceInductive, PTL

\* And nothing the cursor knows of in such a window outlives its document.
THEOREM SweepSafe == Spec => []FullListingSweeps
<1>1. QuietInv => FullListingSweeps
  BY DEF QuietInv, Mirrored, Mirrors, LiveIn, FullListingSweeps
<1> QED BY <1>1, QuietInductive, PTL
=============================================================================
