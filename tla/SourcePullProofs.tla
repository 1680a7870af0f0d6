-------------------------- MODULE SourcePullProofs --------------------------
(***************************************************************************)
(* Proofs about SourcePull, for every book, page size and number of runs:  *)
(* type correctness, the cursor behind the rows, the log within the rows,  *)
(* and coverage that was really listed.                                    *)
(***************************************************************************)
EXTENDS SourcePull, TLAPS

\* A document's record in the store's three maps.
LEMMA StoreFields ==
  ASSUME NEW s \in Store
  PROVE  /\ s = [held |-> s.held, ev |-> s.ev, cur |-> s.cur]
         /\ s.held \in [Doc -> HeldRow \cup {None}]
         /\ s.ev \in [Doc -> Seq(Reading)]
         /\ s.cur \in [Doc -> Stamp]
  BY DEF Store

LEMMA NothingType == Nothing \in Store /\ Nothing.cur \in [Doc -> Stamp]
<1>1. 0 \in Stamp /\ <<>> \in Seq(Reading)
  BY PullAssumption DEF Stamp
<1> QED
  BY <1>1 DEF Nothing, Store

LEMMA RetireType ==
  ASSUME NEW s \in Store, NEW D \in SUBSET Doc
  PROVE  Retire(s, D) \in Store
<1>1. 0 \in Stamp /\ <<>> \in Seq(Reading)
  BY PullAssumption DEF Stamp
<1> QED
  BY <1>1, StoreFields DEF Retire, Store

LEMMA Appended ==
  ASSUME NEW t \in Seq(Reading), NEW x \in Reading, NEW s, s = Append(t, x)
  PROVE  /\ s \in Seq(Reading) /\ s # <<>>
         /\ Len(t) \in Nat /\ Len(s) = Len(t) + 1 /\ s[Len(s)] = x
         /\ \A i \in DOMAIN s : s[i] = x \/ (i \in DOMAIN t /\ s[i] = t[i])
<1>1. s \in Seq(Reading) /\ Len(t) \in Nat /\ Len(s) = Len(t) + 1
  OBVIOUS
<1>2. s[Len(t) + 1] = x
  OBVIOUS
<1>3. \A i \in 1..Len(t) : s[i] = t[i]
  OBVIOUS
<1>4. DOMAIN s = 1..Len(s) /\ DOMAIN t = 1..Len(t)
  BY <1>1
<1>5. s # <<>>
  BY <1>1
<1>6. \A i \in 1..Len(s) : i = Len(t) + 1 \/ i \in 1..Len(t)
  BY <1>1
<1> QED
  BY ONLY <1>1, <1>2, <1>3, <1>4, <1>5, <1>6

\* What a reading of d does to the log: one reading more, the newest, beside those
\* of the same commit.
LEMMA RecordedLog ==
  ASSUME TypeOK, NEW d \in Doc
  PROVE  /\ Recorded(d) \in Seq(Reading) /\ Recorded(d) # <<>>
         /\ Recorded(d)[Len(Recorded(d))] = ReadingOf(d)
         /\ d \notin fresh => Len(Recorded(d)) = 1
         /\ \A i \in DOMAIN Recorded(d) :
              \/ Recorded(d)[i] = ReadingOf(d)
              \/ i \in DOMAIN rm.ev[d] /\ Recorded(d)[i] = rm.ev[d][i]
<1>1. ReadingOf(d) \in Reading
  BY DEF ReadingOf, Reading, TypeOK
<1>2. rm.ev[d] \in Seq(Reading) /\ <<>> \in Seq(Reading)
  BY StoreFields DEF TypeOK
<1>3. PICK t \in Seq(Reading) : t = IF d \in fresh THEN rm.ev[d] ELSE <<>>
  BY <1>2
<1>4. Recorded(d) = Append(t, ReadingOf(d))
  BY <1>3 DEF Recorded
<1>5. /\ Recorded(d) \in Seq(Reading) /\ Recorded(d) # <<>>
      /\ Len(t) \in Nat /\ Len(Recorded(d)) = Len(t) + 1
      /\ Recorded(d)[Len(Recorded(d))] = ReadingOf(d)
      /\ \A i \in DOMAIN Recorded(d) :
           Recorded(d)[i] = ReadingOf(d) \/ (i \in DOMAIN t /\ Recorded(d)[i] = t[i])
  BY <1>1, <1>4, Appended
<1>6. \A i \in DOMAIN t : t = rm.ev[d]
  BY <1>3
<1>7. d \notin fresh => Len(t) = 0
  BY <1>3
<1>8. d \notin fresh => Len(Recorded(d)) = 1
  BY <1>5, <1>7
<1> QED
  BY ONLY <1>5, <1>6, <1>8

LEMMA Uncursored ==
  ASSUME NEW s \in Store, NEW t, t = [s EXCEPT !.cur = [d \in Doc |-> 0]]
  PROVE  t \in Store /\ t.held = s.held /\ t.ev = s.ev /\ t.cur = [d \in Doc |-> 0]
<1>1. PICK c \in [Doc -> Stamp] : c = [d \in Doc |-> 0]
  <2>1. 0 \in Stamp
    BY PullAssumption DEF Stamp
  <2>2. [d \in Doc |-> 0] \in [Doc -> Stamp]
    BY <2>1
  <2> QED
    BY <2>2
<1>2. PICK h \in [Doc -> HeldRow \cup {None}], e \in [Doc -> Seq(Reading)], o \in [Doc -> Stamp] :
        s = [held |-> h, ev |-> e, cur |-> o]
  BY StoreFields
<1>3. t = [held |-> h, ev |-> e, cur |-> c]
  BY <1>1, <1>2
<1> QED
  BY <1>1, <1>2, <1>3 DEF Store

\* The pages and the source's rows are of the shape the listing expects.
LEMMA PageType ==
  ASSUME TypeOK, NEW n \in Nat, NEW w \in Win, NEW m \in Stamp
  PROVE  PageRows(n, w, m) \in SUBSET Row
<1>1. ASSUME NEW d \in Doc
      PROVE  [doc |-> d, stamp |-> src[d].stamp, live |-> src[d].status = "live"] \in Row
  <2>1. src[d].stamp \in Stamp
    BY DEF TypeOK
  <2>2. (src[d].status = "live") \in BOOLEAN
    OBVIOUS
  <2> QED
    BY <2>1, <2>2 DEF Row
<1>2. Book(w) \subseteq Doc
  BY DEF Book
<1> QED
  BY <1>1, <1>2 DEF PageRows

LEMMA DropType ==
  ASSUME DropListing
  PROVE  /\ mark' \in Stamp /\ known' \in [Doc -> Stamp] /\ rows' \in SUBSET Row
         /\ page' \in 0..MaxPages /\ more' \in BOOLEAN /\ early' \in BOOLEAN
         /\ listed' \in SUBSET Doc /\ fresh' \in SUBSET Doc
         /\ away' \in SUBSET Doc /\ slipped' \in BOOLEAN
<1>1. 0 \in Stamp /\ 0 \in 0..MaxPages
  BY PullAssumption DEF Stamp
<1>2. mark' = 0 /\ known' = Nothing.cur /\ page' = 0
  BY DEF DropListing
<1>3. rows' = {} /\ listed' = {} /\ fresh' = {} /\ away' = {}
  BY DEF DropListing
<1>4. more' \in BOOLEAN /\ early' \in BOOLEAN /\ slipped' \in BOOLEAN
  BY DEF DropListing
<1> QED
  BY <1>1, <1>2, <1>3, <1>4, NothingType

LEMMA EndType ==
  ASSUME EndRun
  PROVE  /\ pc' \in {"idle", "window", "listing", "finishing"}
         /\ kind' \in Kinds /\ since' \in Win /\ win' \in Win /\ clash' \in BOOLEAN
         /\ whole' \in SUBSET Win /\ quiet' \in BOOLEAN
<1>1. 1 \in Win
  BY PullAssumption DEF Win
<1>2. pc' = "idle" /\ kind' = "nightly" /\ since' = 1 /\ win' = 1 /\ whole' = {}
  BY DEF EndRun
<1>3. clash' \in BOOLEAN /\ quiet' \in BOOLEAN
  BY DEF EndRun
<1> QED
  BY <1>1, <1>2, <1>3 DEF Kinds

\* A write at the source keeps its records in shape.
LEMMA WrittenType ==
  ASSUME TypeOK, clock < MaxClock, NEW d \in Doc, NEW st \in {"live", "void"},
         NEW w \in Win, NEW b \in SUBSET Lines, Written(d, st, w, b)
  PROVE  src' \in [Doc -> [status : {"absent", "live", "void", "gone"},
                           win : Win, stamp : Stamp, lines : SUBSET Lines]]
<1>1. clock + 1 \in Stamp
  BY PullAssumption DEF TypeOK, Stamp
<1> QED
  BY <1>1 DEF TypeOK, Written

\* What Notice assigns, and what it leaves alone, keeps its type.
LEMMA NoticeType ==
  ASSUME TypeOK, clock < MaxClock, NEW d \in Doc, NEW m \in BOOLEAN, Notice(d, m),
         src' \in [Doc -> [status : {"absent", "live", "void", "gone"},
                           win : Win, stamp : Stamp, lines : SUBSET Lines]]
  PROVE  TypeOK'
<1>1. clock' \in Stamp
  BY PullAssumption DEF TypeOK, Notice, Stamp
<1>2. quiet' \in BOOLEAN /\ last' \in Outcome \cup {None} /\ whole' \in SUBSET Win
  BY DEF Notice
<1>3. away' \in SUBSET Doc
  BY DEF TypeOK, Notice
<1>4. slipped' \in BOOLEAN
  BY DEF TypeOK, Notice
<1>5. UNCHANGED <<store, run, listing, txn, looked, faults>>
  BY DEF Notice
<1> QED
  BY <1>1, <1>2, <1>3, <1>4, <1>5 DEF TypeOK, store, run, listing, txn

\* Every variable stays in its range.
THEOREM TypeCorrect == Spec => []TypeOK
<1>1. Init => TypeOK
  <2> SUFFICES ASSUME Init PROVE TypeOK
    OBVIOUS
  <2>1. src \in [Doc -> [status : {"absent", "live", "void", "gone"},
                         win : Win, stamp : Stamp, lines : SUBSET Lines]]
    <3>1. PICK D \in SUBSET Doc, w \in [Doc -> Win] :
            src = [d \in Doc |->
                IF d \in D THEN [status |-> "live", win |-> w[d], stamp |-> d, lines |-> OldBody[d]]
                           ELSE Without("absent")]
      BY DEF Init
    <3>2. \A d \in Doc : OldBody[d] \in SUBSET Lines /\ w[d] \in Win /\ d \in Stamp
      BY PullAssumption DEF Lines, Doc, Stamp
    <3>3. Without("absent") \in [status : {"absent", "live", "void", "gone"},
                                 win : Win, stamp : Stamp, lines : SUBSET Lines]
      BY PullAssumption DEF Without, Win, Stamp
    <3> QED
      BY <3>1, <3>2, <3>3
  <2>2. clock \in Stamp /\ covered \in 1..Windows + 1 /\ since \in Win /\ win \in Win
        /\ mark \in Stamp /\ page \in 0..MaxPages /\ faults \in 0..MaxFaults
    BY PullAssumption DEF Init, Stamp, Win
  <2>3. rm \in Store /\ db \in Store /\ known \in [Doc -> Stamp]
    BY NothingType DEF Init
  <2>4. pc \in {"idle", "window", "listing", "finishing"} /\ kind \in Kinds
    BY DEF Init, Kinds
  <2>5. more \in BOOLEAN /\ early \in BOOLEAN /\ clash \in BOOLEAN
        /\ quiet \in BOOLEAN /\ slipped \in BOOLEAN
    BY DEF Init
  <2>6. rows \in SUBSET Row /\ listed \in SUBSET Doc /\ fresh \in SUBSET Doc
        /\ whole \in SUBSET Win /\ away \in SUBSET Doc /\ looked \in SUBSET Win
        /\ last \in Outcome \cup {None}
    BY DEF Init
  <2> QED
    BY <2>1, <2>2, <2>3, <2>4, <2>5, <2>6 DEF TypeOK
<1>2. TypeOK /\ [Next]_vars => TypeOK'
  <2> SUFFICES ASSUME TypeOK, [Next]_vars PROVE TypeOK'
    OBVIOUS
  <2>1. ASSUME NEW d \in Doc, Create(d) PROVE TypeOK'
    <3>1. PICK w \in Win, b \in SUBSET Lines : Written(d, "live", w, b)
      BY <2>1 DEF Create, Lines
    <3> QED
      BY <2>1, <3>1, WrittenType, NoticeType DEF Create
  <2>2. ASSUME NEW d \in Doc, Edit(d) PROVE TypeOK'
    <3>1. PICK s \in {"live", "void"}, w \in Win, b \in SUBSET Lines : Written(d, s, w, b)
      <4>1. src[d].status \in {"live", "void"} /\ src[d].win \in Win /\ src[d].lines \in SUBSET Lines
        BY <2>2 DEF Edit, Shown, TypeOK
      <4>2. Bodies \subseteq SUBSET Lines
        BY DEF Lines
      <4> QED
        BY <2>2, <4>1, <4>2 DEF Edit
    <3>2. src' \in [Doc -> [status : {"absent", "live", "void", "gone"},
                            win : Win, stamp : Stamp, lines : SUBSET Lines]]
      BY <2>2, <3>1, WrittenType DEF Edit
    <3>3. (src[d].win = win /\ (mark > 0 \/ src'[d].win # win)) \in BOOLEAN
      OBVIOUS
    <3> QED
      BY <2>2, <3>2, <3>3, NoticeType DEF Edit
  <2>3. ASSUME NEW d \in Doc, Delete(d) PROVE TypeOK'
    <3>1. Without("gone") \in [status : {"absent", "live", "void", "gone"},
                               win : Win, stamp : Stamp, lines : SUBSET Lines]
      BY PullAssumption DEF Without, Win, Stamp
    <3>2. src' \in [Doc -> [status : {"absent", "live", "void", "gone"},
                            win : Win, stamp : Stamp, lines : SUBSET Lines]]
      BY <2>3, <3>1 DEF Delete, TypeOK
    <3>3. (src[d].win = win) \in BOOLEAN
      OBVIOUS
    <3> QED
      BY <2>3, <3>2, <3>3, NoticeType DEF Delete
  <2>4. ASSUME NEW k \in Kinds, NEW s \in Win, StartRun(k, s) PROVE TypeOK'
    <3>1. rm' \in Store /\ db' \in Store
      <4>1. [rm EXCEPT !.cur = [d \in Doc |-> 0]] \in Store
        BY Uncursored DEF TypeOK
      <4> QED
        BY <2>4, <4>1 DEF StartRun, TypeOK
    <3>2. pc' = "window" /\ kind' \in Kinds /\ since' \in Win /\ win' \in Win
          /\ whole' = {} /\ quiet' = TRUE
      BY <2>4 DEF StartRun
    <3>3. UNCHANGED <<source, covered, listing, txn, last, away, slipped, looked, faults>>
      BY <2>4 DEF StartRun
    <3> QED
      BY <3>1, <3>2, <3>3 DEF TypeOK, source, listing, txn
  <2>5. CASE OpenWindow
    <3>1. PICK m \in Stamp : mark' = m /\ rows' = PageRows(1, win, m)
      BY <2>5 DEF OpenWindow
    <3>2. rows' \in SUBSET Row
      BY <3>1, PageType DEF TypeOK
    <3>3. known' \in [Doc -> Stamp]
      BY <2>5, StoreFields, NothingType DEF OpenWindow, TypeOK
    <3>4. page' \in 0..MaxPages
      BY <2>5, PullAssumption DEF OpenWindow
    <3>5. more' \in BOOLEAN /\ early' \in BOOLEAN /\ slipped' \in BOOLEAN
      <4>1. more' = HasMore(1, win) /\ early' = FALSE /\ slipped' = FALSE
        BY <2>5 DEF OpenWindow
      <4>2. HasMore(1, win) \in BOOLEAN
        BY DEF HasMore
      <4> QED
        BY <4>1, <4>2
    <3>6. listed' \in SUBSET Doc /\ away' \in SUBSET Doc
      <4>1. listed' = {} /\ away' = {d \in Doc : src[d].status # "live" \/ src[d].win # win}
        BY <2>5 DEF OpenWindow
      <4> QED
        BY <4>1
    <3>7. pc' = "listing"
      BY <2>5 DEF OpenWindow
    <3>8. UNCHANGED <<source, store, kind, since, win, txn, whole, quiet, last, looked, faults>>
      BY <2>5 DEF OpenWindow
    <3> QED
      BY <3>1, <3>2, <3>3, <3>4, <3>5, <3>6, <3>7, <3>8 DEF TypeOK, source, store, txn
  <2>6. CASE NextPage
    <3>1. page' \in 0..MaxPages /\ page + 1 \in Nat
      BY <2>6, PullAssumption DEF NextPage, TypeOK
    <3>2. rows' \in SUBSET Row
      BY <2>6, <3>1, PageType DEF NextPage, TypeOK
    <3>3. more' \in BOOLEAN
      BY <2>6 DEF NextPage, HasMore
    <3>4. UNCHANGED <<source, store, run, mark, known, early, listed, txn, history, faults>>
      BY <2>6 DEF NextPage
    <3> QED
      BY <3>1, <3>2, <3>3, <3>4 DEF TypeOK, source, store, run, txn, history
  <2>7. ASSUME NEW r \in rows, StopAtMark(r) PROVE TypeOK'
    BY <2>7 DEF StopAtMark, TypeOK, source, store, run, txn, history
  <2>8. ASSUME NEW r \in rows, PassOver(r) PROVE TypeOK'
    BY <2>8 DEF PassOver, TypeOK, source, store, run, txn, history
  <2>9. ASSUME NEW r \in rows, Resumed(r) PROVE TypeOK'
    <3>1. r.doc \in Doc
      BY DEF TypeOK, Row
    <3> QED
      BY <2>9, <3>1 DEF Resumed, TypeOK, source, store, run, txn, history
  <2>10. ASSUME NEW r \in rows, Fetch(r) PROVE TypeOK'
    <3>1. r.doc \in Doc /\ r.stamp \in Stamp
      BY DEF TypeOK, Row
    <3>2. Upserted(r.doc) \in HeldRow
      BY <3>1, StoreFields DEF Upserted, TypeOK, HeldRow
    <3>3. Recorded(r.doc) \in Seq(Reading)
      BY <3>1, RecordedLog
    <3>4. Mark(r) \in Stamp
      BY <3>1, StoreFields DEF Mark, TypeOK
    <3>5. rm' \in Store
      BY <2>10, <3>1, <3>2, <3>3, <3>4, StoreFields DEF Fetch, TypeOK, Store
    <3>6. listed' \in SUBSET Doc /\ rows' \in SUBSET Row /\ fresh' \in SUBSET Doc
      BY <2>10, <3>1 DEF Fetch, TypeOK
    <3>7. clash' \in BOOLEAN
      BY <2>10 DEF Fetch, TypeOK
    <3>8. UNCHANGED <<source, db, covered, run, mark, known, page, more, early, history, faults>>
      BY <2>10 DEF Fetch
    <3> QED
      BY <3>5, <3>6, <3>7, <3>8 DEF TypeOK, source, run, history
  <2>11. ASSUME NEW r \in rows, DetailGone(r) PROVE TypeOK'
    <3>1. rm' \in Store /\ db' \in Store
      BY <2>11 DEF DetailGone, TypeOK
    <3>2. EndRun /\ UNCHANGED <<source, covered, last, looked, faults>>
      BY <2>11 DEF DetailGone
    <3> QED
      BY <3>1, <3>2, EndType, DropType DEF TypeOK, source, EndRun
  <2>12. CASE CloseWindow
    <3>1. rm' \in Store /\ db' \in Store
      <4>1. Retired \in SUBSET Doc
        BY DEF Retired, InWindow
      <4> QED
        BY <2>12, <4>1, RetireType DEF CloseWindow, TypeOK
    <3>2. win' \in Win /\ whole' \in SUBSET Win /\ looked' \in SUBSET Win
      BY <2>12, PullAssumption DEF CloseWindow, TypeOK, Win
    <3>3. pc' \in {"idle", "window", "listing", "finishing"}
      BY <2>12 DEF CloseWindow
    <3>4. DropListing /\ UNCHANGED <<source, covered, kind, since, clash, quiet, last, faults>>
      BY <2>12 DEF CloseWindow
    <3> QED
      BY <3>1, <3>2, <3>3, <3>4, DropType DEF TypeOK, source
  <2>13. CASE Refused
    BY <2>13, EndType, DropType DEF Refused, TypeOK, source, EndRun
  <2>14. CASE Finish
    <3>1. covered' \in 1..Windows + 1
      BY <2>14, PullAssumption DEF Finish, CoveredNow, TypeOK, Win
    <3>2. last' \in Outcome \cup {None}
      BY <2>14 DEF Finish, TypeOK, Outcome
    <3>3. EndRun /\ UNCHANGED <<source, rm, db, looked, faults>>
      BY <2>14 DEF Finish
    <3> QED
      BY <3>1, <3>2, <3>3, EndType, DropType DEF TypeOK, source, EndRun
  <2>15. CASE Fail
    <3>1. rm' \in Store /\ db' \in Store /\ faults' \in 0..MaxFaults
      BY <2>15, PullAssumption DEF Fail, TypeOK
    <3>2. EndRun /\ UNCHANGED <<source, covered, last, looked>>
      BY <2>15 DEF Fail
    <3> QED
      BY <3>1, <3>2, EndType, DropType DEF TypeOK, source, EndRun
  <2>16. CASE Kill
    <3>1. rm' \in Store /\ faults' \in 0..MaxFaults
      BY <2>16, PullAssumption DEF Kill, TypeOK
    <3>2. EndRun /\ UNCHANGED <<source, db, covered, last, looked>>
      BY <2>16 DEF Kill
    <3> QED
      BY <3>1, <3>2, EndType, DropType DEF TypeOK, source, EndRun
  <2>17. CASE UNCHANGED vars
    BY <2>17 DEF TypeOK, vars, source, store, run, listing, txn, history
  <2> QED
    BY <2>1, <2>2, <2>3, <2>4, <2>5, <2>6, <2>7, <2>8, <2>9, <2>10, <2>11, <2>12,
       <2>13, <2>14, <2>15, <2>16, <2>17 DEF Next, SourceStep, PullStep, RowStep
<1> QED
  BY <1>1, <1>2, PTL DEF Spec
-----------------------------------------------------------------------------
\* What the session and the committed copy know of versions: none is newer than
\* the source's, and one version has one body.
VersionsIn(s) ==
  \A d \in Doc : s.held[d] # None =>
    /\ s.held[d].ver <= clock
    /\ Shown(d) =>
         /\ s.held[d].ver <= src[d].stamp
         /\ s.held[d].ver = src[d].stamp => CurrentIn(s, d)

SourceInv ==
  /\ \A d \in Doc : src[d].stamp <= clock
  /\ \A r \in rows : r.stamp <= clock /\ (Shown(r.doc) => r.stamp <= src[r.doc].stamp)

StoreGood(s) == CursorIn(s) /\ LogIn(s) /\ VersionsIn(s)

StoreInv == SourceInv /\ StoreGood(rm) /\ StoreGood(db)

\* A write at d leaves every other document as it was and gives d a newer stamp.
LEMMA SourceKeepsStore ==
  ASSUME TypeOK, StoreInv, clock < MaxClock, NEW d \in Doc,
         NEW x \in [status : {"absent", "live", "void", "gone"},
                    win : Win, stamp : Stamp, lines : SUBSET Lines],
         x.stamp = clock + 1 \/ (x.stamp = 0 /\ x.status = "gone"),
         src' = [src EXCEPT ![d] = x], NEW m \in BOOLEAN, Notice(d, m)
  PROVE  StoreInv'
<1>1. clock' = clock + 1 /\ clock \in Nat /\ UNCHANGED <<rm, db, rows>>
  BY DEF Notice, store, listing, TypeOK, Stamp
<1>2. /\ \A e \in Doc \ {d} : src'[e] = src[e]
      /\ src'[d] = x /\ (x.status \in {"live", "void"} => x.stamp = clock + 1)
  BY DEF TypeOK
<1>3. SourceInv'
  <2>1. \A e \in Doc : src[e].stamp \in Nat
    BY DEF TypeOK, Stamp
  <2>2. \A r \in rows : r.doc \in Doc /\ r.stamp \in Nat
    BY DEF TypeOK, Row, Stamp
  <2>3. \A e \in Doc : src'[e].stamp <= clock'
    BY <1>1, <1>2, <2>1 DEF StoreInv, SourceInv
  <2>4. ASSUME NEW r \in rows
        PROVE  r.stamp <= clock' /\ (Shown(r.doc)' => r.stamp <= src'[r.doc].stamp)
    BY <1>1, <1>2, <2>1, <2>2 DEF StoreInv, SourceInv, Shown
  <2> QED
    BY <1>1, <2>3, <2>4 DEF SourceInv
<1>4. ASSUME NEW e \in Doc
      PROVE  /\ rm.held[e] # None => rm.held[e].ver \in Nat
             /\ db.held[e] # None => db.held[e].ver \in Nat
  BY StoreFields DEF TypeOK, HeldRow, Stamp
<1>5. StoreGood(rm)'
  <2>1. CursorIn(rm)' /\ LogIn(rm)'
    BY <1>1 DEF StoreInv, StoreGood, CursorIn, LogIn, Newest
  <2>2. ASSUME NEW e \in Doc, (rm.held[e] # None)'
        PROVE  (/\ rm.held[e].ver <= clock
                /\ Shown(e) => /\ rm.held[e].ver <= src[e].stamp
                               /\ rm.held[e].ver = src[e].stamp => CurrentIn(rm, e))'
    <3>1. VersionsIn(rm)
      BY DEF StoreInv, StoreGood
    <3>4. /\ rm.held[e].ver <= clock /\ rm.held[e].ver \in Nat
          /\ Shown(e) => /\ rm.held[e].ver <= src[e].stamp
                         /\ rm.held[e].ver = src[e].stamp => CurrentIn(rm, e)
      BY <1>1, <1>4, <2>2, <3>1 DEF VersionsIn
    <3>2. CASE e = d
      BY <1>1, <1>2, <3>2, <3>4 DEF Shown
    <3>3. CASE e # d
      BY <1>1, <1>2, <2>2, <3>3, <3>4 DEF CurrentIn, Shown, Newest, ReadingOf
    <3> QED
      BY <3>2, <3>3
  <2>3. VersionsIn(rm)'
    BY <2>2 DEF VersionsIn
  <2> QED
    BY <2>1, <2>3 DEF StoreGood
<1>6. StoreGood(db)'
  <2>1. CursorIn(db)' /\ LogIn(db)'
    BY <1>1 DEF StoreInv, StoreGood, CursorIn, LogIn, Newest
  <2>2. ASSUME NEW e \in Doc, (db.held[e] # None)'
        PROVE  (/\ db.held[e].ver <= clock
                /\ Shown(e) => /\ db.held[e].ver <= src[e].stamp
                               /\ db.held[e].ver = src[e].stamp => CurrentIn(db, e))'
    <3>1. VersionsIn(db)
      BY DEF StoreInv, StoreGood
    <3>4. /\ db.held[e].ver <= clock /\ db.held[e].ver \in Nat
          /\ Shown(e) => /\ db.held[e].ver <= src[e].stamp
                         /\ db.held[e].ver = src[e].stamp => CurrentIn(db, e)
      BY <1>1, <1>4, <2>2, <3>1 DEF VersionsIn
    <3>2. CASE e = d
      BY <1>1, <1>2, <3>2, <3>4 DEF Shown
    <3>3. CASE e # d
      BY <1>1, <1>2, <2>2, <3>3, <3>4 DEF CurrentIn, Shown, Newest, ReadingOf
    <3> QED
      BY <3>2, <3>3
  <2>3. VersionsIn(db)'
    BY <2>2 DEF VersionsIn
  <2> QED
    BY <2>1, <2>3 DEF StoreGood
<1> QED
  BY <1>3, <1>5, <1>6 DEF StoreInv

\* A store whose maps agree with a good one, or have forgotten, is good.
LEMMA StoreLess ==
  ASSUME NEW s \in Store, NEW t \in Store, StoreGood(s),
         \A d \in Doc : \/ t.held[d] = s.held[d] /\ t.ev[d] = s.ev[d] /\ t.cur[d] \in {0, s.cur[d]}
                        \/ t.held[d] = None /\ t.ev[d] = <<>> /\ t.cur[d] = 0
  PROVE  StoreGood(t)
<1>1. CursorIn(t)
  BY DEF StoreGood, CursorIn
<1>2. LogIn(t)
  BY DEF StoreGood, LogIn, Newest
<1>3. VersionsIn(t)
  BY DEF StoreGood, VersionsIn, CurrentIn, Newest
<1> QED
  BY <1>1, <1>2, <1>3 DEF StoreGood

LEMMA RetireGood ==
  ASSUME NEW s \in Store, StoreGood(s), NEW D \in SUBSET Doc
  PROVE  StoreGood(Retire(s, D))
<1>1. \A d \in Doc :
        \/ Retire(s, D).held[d] = s.held[d] /\ Retire(s, D).ev[d] = s.ev[d]
           /\ Retire(s, D).cur[d] \in {0, s.cur[d]}
        \/ Retire(s, D).held[d] = None /\ Retire(s, D).ev[d] = <<>>
           /\ Retire(s, D).cur[d] = 0
  BY DEF Retire
<1> QED
  BY <1>1, RetireType, StoreLess

LEMMA NothingGood == StoreGood(Nothing)
  BY DEF StoreGood, CursorIn, LogIn, VersionsIn, Nothing

LEMMA UncursoredGood ==
  ASSUME NEW s \in Store, StoreGood(s)
  PROVE  StoreGood([s EXCEPT !.cur = [d \in Doc |-> 0]])
<1> DEFINE t == [s EXCEPT !.cur = [d \in Doc |-> 0]]
<1>1. t \in Store /\ \A d \in Doc : t.held[d] = s.held[d] /\ t.ev[d] = s.ev[d] /\ t.cur[d] = 0
  BY Uncursored
<1> HIDE DEF t
<1>2. StoreGood(t)
  BY <1>1, StoreLess
<1> QED
  BY <1>2 DEF t

\* What a reading writes is current, and what it marks is no newer.
LEMMA FetchGood ==
  ASSUME TypeOK, StoreInv, NEW r \in rows, Fetch(r)
  PROVE  StoreInv' /\ CurrentIn(rm', r.doc) /\ rm'.held[r.doc] # None
<1> DEFINE d == r.doc
<1>1. d \in Doc /\ r.stamp \in Nat /\ Shown(d) /\ src[d].stamp \in Nat
  BY DEF TypeOK, Row, Stamp, Fetch
<1>2. UNCHANGED <<src, clock, db>> /\ rows' \subseteq rows
  BY DEF Fetch, source
<1>3. Upserted(d) \in HeldRow
  BY <1>1, StoreFields DEF Upserted, TypeOK, HeldRow
<1>4. Upserted(d) # None /\ Recorded(d) # <<>>
  BY <1>1, <1>3, NoneAssumption, RecordedLog
<1>5. /\ rm'.held = [rm.held EXCEPT ![d] = Upserted(d)]
      /\ rm'.ev = [rm.ev EXCEPT ![d] = Recorded(d)]
      /\ rm'.cur = [rm.cur EXCEPT ![d] = Mark(r)]
  BY DEF Fetch
<1>6. /\ rm'.held[d] = Upserted(d) /\ rm'.ev[d] = Recorded(d) /\ rm'.cur[d] = Mark(r)
      /\ \A e \in Doc \ {d} : rm'.held[e] = rm.held[e] /\ rm'.ev[e] = rm.ev[e]
                             /\ rm'.cur[e] = rm.cur[e]
  BY <1>1, <1>5, StoreFields DEF TypeOK
<1>7. CurrentIn(rm', d)
  <2>1. Newest(rm', d) = ReadingOf(d)
    BY <1>1, <1>6, RecordedLog DEF Newest
  <2> QED
    BY <1>4, <1>6, <2>1 DEF CurrentIn, Upserted
<1>8. SourceInv'
  BY <1>2 DEF StoreInv, SourceInv, Shown
<1>9. StoreGood(db)'
  BY <1>2 DEF StoreInv, StoreGood, CursorIn, LogIn, VersionsIn, CurrentIn, Shown, Newest, ReadingOf
<1>10. CursorIn(rm)'
  <2>1. Mark(r) # 0 => Mark(r) <= src[d].stamp
    <3>1. CASE src[d].lines = {}
      <4>1. rm.cur[d] \in Nat /\ (rm.held[d] # None => rm.held[d].ver \in Nat)
        BY <1>1, StoreFields DEF TypeOK, HeldRow, Stamp
      <4> QED
        BY <1>1, <3>1, <4>1 DEF Mark, StoreInv, StoreGood, CursorIn, VersionsIn
    <3>2. CASE src[d].lines # {}
      BY <1>1, <3>2 DEF Mark, StoreInv, SourceInv
    <3> QED
      BY <3>1, <3>2
  <2>2. rm'.held[d] # None /\ rm'.held[d].ver = src[d].stamp
    BY <1>4, <1>6 DEF Upserted
  <2> QED
    BY <1>6, <2>1, <2>2 DEF StoreInv, StoreGood, CursorIn
<1>11. LogIn(rm)'
  <2>1. Newest(rm', d).ver = rm'.held[d].ver
    <3>1. Newest(rm', d) = ReadingOf(d)
      BY <1>1, <1>6, RecordedLog DEF Newest
    <3> QED
      BY <1>6, <3>1 DEF ReadingOf, Upserted
  <2>2. ASSUME NEW i \in DOMAIN Recorded(d)
        PROVE  /\ Recorded(d)[i].ver <= Upserted(d).ver
               /\ Recorded(d)[i].lines \subseteq Upserted(d).lines
    <3>1. CASE Recorded(d)[i] = ReadingOf(d)
      BY <1>1, <3>1 DEF ReadingOf, Upserted
    <3>2. CASE i \in DOMAIN rm.ev[d] /\ Recorded(d)[i] = rm.ev[d][i]
      <4>1. rm.ev[d] # <<>> /\ rm.held[d] # None
        BY <1>1, <3>2 DEF StoreInv, StoreGood, LogIn
      <4>2. rm.ev[d][i].ver <= rm.held[d].ver /\ rm.ev[d][i].lines \subseteq rm.held[d].lines
        BY <1>1, <3>2, <4>1 DEF StoreInv, StoreGood, LogIn
      <4>3. rm.held[d].ver <= src[d].stamp
        BY <1>1, <4>1 DEF StoreInv, StoreGood, VersionsIn
      <4>4. rm.ev[d][i].ver \in Nat /\ rm.held[d].ver \in Nat
        <5>1. rm.ev[d] \in Seq(Reading) /\ rm.held[d] \in HeldRow
          BY <1>1, <4>1, StoreFields DEF TypeOK
        <5>2. rm.ev[d][i] \in Reading
          BY <3>2, <5>1
        <5> QED
          BY <5>1, <5>2 DEF HeldRow, Reading, Stamp
      <4>5. rm.ev[d][i].ver <= src[d].stamp
        BY ONLY <1>1, <4>2, <4>3, <4>4
      <4> QED
        BY <3>2, <4>1, <4>2, <4>5 DEF Upserted
    <3> QED
      BY <1>1, <3>1, <3>2, RecordedLog
  <2>3. LogIn(rm)
    BY DEF StoreInv, StoreGood
  <2>4. ASSUME NEW e \in Doc, e # d
        PROVE  /\ rm'.held[e] = None <=> rm'.ev[e] = <<>>
               /\ rm'.held[e] # None =>
                    /\ Newest(rm', e).ver = rm'.held[e].ver
                    /\ \A i \in DOMAIN rm'.ev[e] :
                         /\ rm'.ev[e][i].ver <= rm'.held[e].ver
                         /\ rm'.ev[e][i].lines \subseteq rm'.held[e].lines
    BY <1>6, <2>3, <2>4 DEF LogIn, Newest
  <2> QED
    BY <1>4, <1>6, <2>1, <2>2, <2>4 DEF LogIn, Newest
<1>12. VersionsIn(rm)'
  <2>1. src[d].stamp <= clock
    BY <1>1 DEF StoreInv, SourceInv
  <2>2. rm'.held[d].ver = src[d].stamp
    BY <1>6 DEF Upserted
  <2>3. ASSUME NEW e \in Doc \ {d}, rm'.held[e] # None
        PROVE  /\ rm'.held[e].ver <= clock
               /\ Shown(e) =>
                    /\ rm'.held[e].ver <= src[e].stamp
                    /\ rm'.held[e].ver = src[e].stamp => CurrentIn(rm', e)
    BY <1>6, <2>3 DEF StoreInv, StoreGood, VersionsIn, CurrentIn, Newest
  <2>4. ASSUME NEW e \in Doc, rm'.held[e] # None
        PROVE  /\ rm'.held[e].ver <= clock
               /\ Shown(e) =>
                    /\ rm'.held[e].ver <= src[e].stamp
                    /\ rm'.held[e].ver = src[e].stamp => CurrentIn(rm', e)
    BY <1>1, <1>7, <2>1, <2>2, <2>3, <2>4
  <2>5. \A e \in Doc : (Shown(e)' <=> Shown(e)) /\ (CurrentIn(rm, e)' <=> CurrentIn(rm', e))
    BY <1>2 DEF Shown, CurrentIn, Newest, ReadingOf
  <2> QED
    BY <1>2, <2>4, <2>5 DEF VersionsIn
<1> QED
  BY <1>4, <1>6, <1>7, <1>8, <1>9, <1>10, <1>11, <1>12 DEF StoreInv, StoreGood

\* A new page lists documents with the stamps they have.
LEMMA PageStamps ==
  ASSUME TypeOK, NEW n \in Nat, NEW w \in Win, NEW m \in Stamp, NEW r \in PageRows(n, w, m)
  PROVE  /\ r.doc \in Book(w) /\ r.stamp = src[r.doc].stamp
         /\ r.live <=> src[r.doc].status = "live"
<1>1. PICK d \in Book(w) :
        r = [doc |-> d, stamp |-> src[d].stamp, live |-> src[d].status = "live"]
  BY DEF PageRows
<1> QED
  BY <1>1

\* While the source stands still, good stores are all a step must leave.
LEMMA StoreStep ==
  ASSUME UNCHANGED <<src, clock>>, SourceInv', StoreGood(rm'), StoreGood(db')
  PROVE  StoreInv'
<1>1. StoreGood(rm)'
  BY DEF StoreGood, CursorIn, LogIn, VersionsIn, CurrentIn, Shown, Newest, ReadingOf
<1>2. StoreGood(db)'
  BY DEF StoreGood, CursorIn, LogIn, VersionsIn, CurrentIn, Shown, Newest, ReadingOf
<1> QED
  BY <1>1, <1>2 DEF StoreInv

LEMMA RowsStep ==
  ASSUME StoreInv, UNCHANGED <<src, clock>>, rows' \subseteq rows
  PROVE  SourceInv'
  BY DEF StoreInv, SourceInv, Shown

\* Rows of a new page are no newer than the source.
LEMMA NewRowsStep ==
  ASSUME TypeOK, StoreInv, UNCHANGED <<src, clock>>, NEW n \in Nat, NEW m \in Stamp,
         rows' = PageRows(n, win, m)
  PROVE  SourceInv'
<1>1. ASSUME NEW r \in rows'
      PROVE  r.stamp <= clock /\ (Shown(r.doc) => r.stamp <= src[r.doc].stamp)
  <2>1. r.doc \in Doc /\ r.stamp = src[r.doc].stamp /\ src[r.doc].stamp \in Nat
    BY PageStamps DEF Book, TypeOK, Stamp
  <2> QED
    BY <2>1 DEF StoreInv, SourceInv
<1> QED
  BY <1>1 DEF StoreInv, SourceInv, Shown

\* The source's stamps, the cursor, the log and the versions agree in every
\* state: what CursorBehindRows and LogWithinRows need to be inductive.
LEMMA StoreInductive == Spec => []StoreInv
<1>1. Init => StoreInv
  <2> SUFFICES ASSUME Init PROVE StoreInv
    OBVIOUS
  <2>1. rm = Nothing /\ db = Nothing /\ rows = {} /\ clock = Docs
    BY DEF Init
  <2>2. \A d \in Doc : src[d].stamp <= clock
    <3>1. PICK D \in SUBSET Doc, w \in [Doc -> Win] :
            src = [d \in Doc |->
                IF d \in D THEN [status |-> "live", win |-> w[d], stamp |-> d, lines |-> OldBody[d]]
                           ELSE Without("absent")]
      BY DEF Init
    <3>2. Without("absent").stamp = 0
      BY DEF Without
    <3>3. ASSUME NEW d \in Doc PROVE src[d].stamp \in {0, d}
      <4>1. CASE d \in D
        BY <3>1, <4>1
      <4>2. CASE d \notin D
        BY <3>1, <3>2, <4>2
      <4> QED
        BY <4>1, <4>2
    <3> QED
      BY <2>1, <3>3, PullAssumption DEF Doc
  <2> QED
    BY <2>1, <2>2, NothingGood DEF StoreInv, SourceInv
<1>2. TypeOK /\ StoreInv /\ [Next]_vars => StoreInv'
  <2> SUFFICES ASSUME TypeOK, StoreInv, [Next]_vars PROVE StoreInv'
    OBVIOUS
  <2>1. ASSUME NEW d \in Doc, Create(d) PROVE StoreInv'
    <3>1. PICK w \in Win, b \in SUBSET Lines : Written(d, "live", w, b)
      BY <2>1 DEF Create, Lines
    <3>2. clock < MaxClock
      BY <2>1 DEF Create
    <3>3. clock + 1 \in Stamp
      BY <3>2, PullAssumption DEF TypeOK, Stamp
    <3>4. PICK m \in BOOLEAN : Notice(d, m)
      BY <2>1 DEF Create
    <3> QED
      BY <3>1, <3>2, <3>3, <3>4, SourceKeepsStore DEF Written
  <2>2. ASSUME NEW d \in Doc, Edit(d) PROVE StoreInv'
    <3>1. PICK s \in {"live", "void"}, w \in Win, b \in SUBSET Lines : Written(d, s, w, b)
      <4>1. src[d].status \in {"live", "void"} /\ src[d].win \in Win /\ src[d].lines \in SUBSET Lines
        BY <2>2 DEF Edit, Shown, TypeOK
      <4>2. Bodies \subseteq SUBSET Lines
        BY DEF Lines
      <4> QED
        BY <2>2, <4>1, <4>2 DEF Edit
    <3>2. clock + 1 \in Stamp /\ clock < MaxClock
      BY <2>2, PullAssumption DEF Edit, TypeOK, Stamp
    <3>3. PICK m \in BOOLEAN : Notice(d, m)
      BY <2>2 DEF Edit
    <3> QED
      BY <3>1, <3>2, <3>3, SourceKeepsStore DEF Written
  <2>3. ASSUME NEW d \in Doc, Delete(d) PROVE StoreInv'
    <3>1. Without("gone") \in [status : {"absent", "live", "void", "gone"},
                               win : Win, stamp : Stamp, lines : SUBSET Lines]
      BY PullAssumption DEF Without, Win, Stamp
    <3>2. PICK m \in BOOLEAN : Notice(d, m)
      BY <2>3 DEF Delete
    <3> QED
      BY <2>3, <3>1, <3>2, SourceKeepsStore DEF Delete, Without
  <2>4. ASSUME NEW k \in Kinds, NEW s \in Win, StartRun(k, s) PROVE StoreInv'
    <3>1. UNCHANGED <<src, clock, rows>> /\ db' = rm'
      BY <2>4 DEF StartRun, source, listing
    <3>2. rm' \in {rm, [rm EXCEPT !.cur = [d \in Doc |-> 0]]}
      BY <2>4 DEF StartRun
    <3>3. \A t \in {rm, [rm EXCEPT !.cur = [d \in Doc |-> 0]]} : StoreGood(t)
      BY UncursoredGood DEF StoreInv, TypeOK
    <3> QED
      BY <3>1, <3>2, <3>3, RowsStep, StoreStep
  <2>5. CASE OpenWindow
    <3>1. PICK m \in Stamp : rows' = PageRows(1, win, m)
      BY <2>5 DEF OpenWindow
    <3>2. UNCHANGED <<src, clock, rm, db>>
      BY <2>5 DEF OpenWindow, source, store
    <3> QED
      BY <3>1, <3>2, NewRowsStep, StoreStep DEF StoreInv, TypeOK
  <2>6. CASE NextPage
    <3>1. rows' = PageRows(page + 1, win, mark) /\ page + 1 \in Nat
      BY <2>6 DEF NextPage, TypeOK
    <3>2. UNCHANGED <<src, clock, rm, db>>
      BY <2>6 DEF NextPage, source, store
    <3> QED
      BY <3>1, <3>2, NewRowsStep, StoreStep DEF StoreInv, TypeOK
  <2>7. ASSUME NEW r \in rows, StopAtMark(r) \/ PassOver(r) \/ Resumed(r) PROVE StoreInv'
    <3>1. UNCHANGED <<src, clock, rm, db>> /\ rows' \subseteq rows
      BY <2>7 DEF StopAtMark, PassOver, Resumed, source, store
    <3> QED
      BY <3>1, RowsStep, StoreStep DEF StoreInv
  <2>8. ASSUME NEW r \in rows, Fetch(r) PROVE StoreInv'
    BY <2>8, FetchGood
  <2>9. ASSUME EndRun, UNCHANGED <<src, clock>>, rm' \in {rm, db}, db' \in {rm, db}
        PROVE  StoreInv'
    <3>1. rows' \subseteq rows
      BY <2>9 DEF EndRun, DropListing
    <3> QED
      BY <2>9, <3>1, RowsStep, StoreStep DEF StoreInv
  <2>10. ASSUME NEW r \in rows, DetailGone(r) PROVE StoreInv'
    BY <2>9, <2>10 DEF DetailGone, source
  <2>11. CASE CloseWindow
    <3>1. Retired \in SUBSET Doc
      BY DEF Retired, InWindow
    <3>2. rm' = Retire(rm, Retired) /\ db' = rm' /\ UNCHANGED <<src, clock>> /\ rows' = {}
      BY <2>11 DEF CloseWindow, DropListing, source
    <3>3. StoreGood(Retire(rm, Retired))
      BY <3>1, RetireGood DEF StoreInv, TypeOK
    <3> QED
      BY <3>2, <3>3, RowsStep, StoreStep
  <2>12. CASE Refused
    BY <2>9, <2>12 DEF Refused, source
  <2>13. CASE Finish
    BY <2>9, <2>13 DEF Finish, source
  <2>14. CASE Fail
    BY <2>9, <2>14 DEF Fail, source
  <2>15. CASE Kill
    BY <2>9, <2>15 DEF Kill, source
  <2>16. CASE UNCHANGED vars
    <3>1. UNCHANGED <<src, clock, rm, db>> /\ rows' \subseteq rows
      BY <2>16 DEF vars, source, store, listing
    <3> QED
      BY <3>1, RowsStep, StoreStep DEF StoreInv
  <2> QED
    BY <2>1, <2>2, <2>3, <2>4, <2>5, <2>6, <2>7, <2>8, <2>10, <2>11, <2>12,
       <2>13, <2>14, <2>15, <2>16 DEF Next, SourceStep, PullStep, RowStep
<1> QED
  BY <1>1, <1>2, TypeCorrect, PTL DEF Spec

\* Whatever fails or is killed, and whatever is retired, the cursor names a
\* document at a stamp only while its rows are there from a reading as new.
THEOREM CursorSafe == Spec => []CursorBehindRows
<1>1. StoreInv => CursorBehindRows
  BY DEF StoreInv, StoreGood, CursorBehindRows
<1> QED
  BY <1>1, StoreInductive, PTL

\* Also when a document was listed twice between two commits and supersede has missed
\* its first reading: the readings left live are no newer than the rows and have no
\* line the rows lack, and the last of them has the rows' version.
THEOREM LogSafe == Spec => []LogWithinRows
<1>1. StoreInv => LogWithinRows
  BY DEF StoreInv, StoreGood, LogWithinRows
<1> QED
  BY <1>1, StoreInductive, PTL
-----------------------------------------------------------------------------
\* What the run under way has listed, and why its mark may be trusted.
CoverInv ==
  /\ CoverageIsReal
  /\ pc \in {"window", "listing"} => \A w \in Win : since <= w /\ w < win => w \in looked
  /\ pc = "finishing" => \A w \in Win : since <= w => w \in looked
  /\ mark > 0 => win >= covered /\ pc = "listing"
  /\ early => mark > 0

\* A listing stops early only at a mark, and only a window already covered has
\* one: an OK run therefore leaves every window from its first one looked at.
THEOREM CoverageSafe == Spec => []CoverageIsReal
<1>1. Init => CoverInv
  BY PullAssumption DEF Init, CoverInv, CoverageIsReal, Win
<1>2. TypeOK /\ CoverInv /\ [Next]_vars => CoverInv'
  <2> SUFFICES ASSUME TypeOK, CoverInv, [Next]_vars PROVE CoverInv'
    OBVIOUS
  <2>0. since \in Nat /\ win \in Nat /\ covered \in Nat /\ mark \in Nat /\ Windows \in Nat
    BY PullAssumption DEF TypeOK, Win, Stamp
  <2>1. ASSUME UNCHANGED <<covered, run, mark, looked>>, early' = early
        PROVE  CoverInv'
    BY <2>1 DEF CoverInv, CoverageIsReal, run
  <2>2. CASE SourceStep
    BY <2>1, <2>2 DEF SourceStep, Create, Edit, Delete, Notice, store, listing
  <2>3. ASSUME NEW k \in Kinds, NEW s \in Win, StartRun(k, s) PROVE CoverInv'
    <3>1. s \in Nat /\ \A w \in Win : w \in Nat
      BY DEF Win
    <3>2. mark = 0 /\ ~early
      BY <2>0, <2>3 DEF StartRun, CoverInv
    <3> QED
      BY <2>3, <3>1, <3>2 DEF StartRun, CoverInv, CoverageIsReal, listing
  <2>4. CASE OpenWindow
    <3>1. PICK m \in Stamp : mark' = m /\ (IF Armed(win) THEN HighWater(m) ELSE m = 0)
      BY <2>4 DEF OpenWindow
    <3>2. mark' > 0 => win >= covered
      BY <3>1 DEF Armed
    <3>3. pc = "window" /\ pc' = "listing" /\ early' = FALSE
          /\ UNCHANGED <<covered, since, win, looked>>
      BY <2>4 DEF OpenWindow, store
    <3> QED
      BY <3>2, <3>3 DEF CoverInv, CoverageIsReal
  <2>5. CASE NextPage
    BY <2>1, <2>5 DEF NextPage, store, history
  <2>6. ASSUME NEW r \in rows, StopAtMark(r) PROVE CoverInv'
    <3>1. mark > 0 /\ early' = TRUE /\ UNCHANGED <<covered, run, mark, looked>>
      BY <2>6 DEF StopAtMark, AtMark, store, history
    <3> QED
      BY <3>1 DEF CoverInv, CoverageIsReal, run
  <2>7. ASSUME NEW r \in rows, PassOver(r) \/ Resumed(r) \/ Fetch(r) PROVE CoverInv'
    BY <2>1, <2>7 DEF PassOver, Resumed, Fetch, store, history
  <2>8. ASSUME EndRun, UNCHANGED <<covered, looked>> PROVE CoverInv'
    BY <2>8 DEF EndRun, DropListing, CoverInv, CoverageIsReal
  <2>9. ASSUME NEW r \in rows, DetailGone(r) PROVE CoverInv'
    BY <2>8, <2>9 DEF DetailGone
  <2>10. CASE CloseWindow
    <3>1. win \in looked'
      <4>1. CASE early
        BY <2>0, <2>10, <4>1 DEF CloseWindow, CoverInv, CoverageIsReal, TypeOK
      <4>2. CASE ~early
        BY <2>10, <4>2 DEF CloseWindow
      <4> QED
        BY <4>1, <4>2
    <3>2. looked \subseteq looked'
      BY <2>10 DEF CloseWindow
    <3>3. \A w \in Win : since <= w /\ w <= win => w \in looked'
      <4>1. ASSUME NEW w \in Win, since <= w, w <= win PROVE w \in looked'
        <5>1. w \in Nat
          BY DEF Win
        <5>2. CASE w = win
          BY <3>1, <5>2
        <5>3. CASE w < win
          BY <2>10, <3>2, <4>1, <5>3 DEF CloseWindow, CoverInv
        <5> QED
          BY <2>0, <4>1, <5>1, <5>2, <5>3
      <4> QED
        BY <4>1
    <3>4. /\ pc' = IF win = Windows THEN "finishing" ELSE "window"
          /\ win' = IF win = Windows THEN win ELSE win + 1
          /\ UNCHANGED <<covered, since>> /\ mark' = 0 /\ early' = FALSE
      BY <2>10 DEF CloseWindow, DropListing
    <3>5. \A w \in Win : w \in Nat /\ w <= Windows
      BY DEF Win
    <3> QED
      BY <2>0, <3>2, <3>3, <3>4, <3>5 DEF CoverInv, CoverageIsReal
  <2>11. CASE Refused
    BY <2>8, <2>11 DEF Refused
  <2>12. CASE Finish
    <3>1. pc = "finishing" /\ covered' = CoveredNow /\ EndRun /\ looked' = looked
      BY <2>12 DEF Finish
    <3>2. \A w \in Win : w \in Nat /\ (w >= CoveredNow => w >= covered \/ w >= since)
      BY <2>0 DEF CoveredNow, Win
    <3>3. CoverageIsReal'
      BY <3>1, <3>2 DEF CoverInv, CoverageIsReal
    <3> QED
      BY <3>1, <3>3 DEF CoverInv, EndRun, DropListing
  <2>13. CASE Fail
    BY <2>8, <2>13 DEF Fail
  <2>14. CASE Kill
    BY <2>8, <2>14 DEF Kill
  <2>15. CASE UNCHANGED vars
    BY <2>1, <2>15 DEF vars, store, run, listing, history
  <2> QED
    BY <2>2, <2>3, <2>4, <2>5, <2>6, <2>7, <2>9, <2>10, <2>11, <2>12, <2>13, <2>14,
       <2>15 DEF Next, PullStep, RowStep
<1>3. CoverInv => CoverageIsReal
  BY DEF CoverInv
<1> QED
  BY <1>1, <1>2, <1>3, TypeCorrect, PTL DEF Spec
=============================================================================
