----------------------------- MODULE SourcePull -----------------------------
(***************************************************************************)
(* One connection's pull of one kind of document, invoices, from the books *)
(* at the source into the read model and the event log: execute_sync and   *)
(* SyncService (app/ingestion), ZohoClient's listing, Repository's resume  *)
(* cursor and EventLog.supersede and record.                               *)
(*                                                                         *)
(* The source changes while it is read, a page at a time by offset; a run  *)
(* commits at its phase boundaries, may fail anywhere and may be killed.   *)
(* Runs of one connection do not overlap here: SyncJobs is about that.     *)
(***************************************************************************)
EXTENDS Integers, FiniteSets, Sequences

CONSTANTS
  Docs,      \* documents are 1..Docs, numbered by their dates inside a window
  Windows,   \* plan_windows gives 1..Windows, oldest first
  Bodies,    \* the sets of lines a document may have; {} is one normalize_invoice refuses
  OldBody,   \* bound: those of the documents the books begin with
  PageSize,  \* ZOHO_PAGE_SIZE
  MaxPages,  \* ZOHO_MAX_PAGES
  MaxClock,  \* bound on the source's changes
  MaxFaults, \* bound on failed and killed runs
  None       \* not held

ASSUME PullAssumption ==
  /\ Docs \in Nat \ {0} /\ Windows \in Nat \ {0}
  /\ PageSize \in Nat \ {0} /\ MaxPages \in Nat \ {0}
  /\ MaxClock \in Nat /\ MaxFaults \in Nat
  /\ Docs <= MaxClock /\ OldBody \in [1..Docs -> Bodies]

Doc   == 1..Docs
Win   == 1..Windows
Stamp == 0..MaxClock
Lines == UNION Bodies

\* nightly: resume, incremental.  reconcile: resume only.  rebuild: full=True.
Kinds == {"nightly", "reconcile", "rebuild"}

VARIABLES
  \* the source
  src,       \* src[d]: status, window of its date, last_modified_time, lines
  clock,     \* the source's clock; no two changes share a stamp
  \* the store: as the run's session sees it, and as committed
  rm, db,    \* held: header and line rows; ev: live events, a
             \* reading after another; cur: ingested_documents
  covered,   \* covered_since(): the oldest window an OK run began with
  \* the run
  pc, kind, since, win,
  mark,      \* modified_since of this window's source, 0 for none
  known,     \* _skipper's ingested_index
  rows,      \* rows of the page in hand not yet looked at
  page,      \* pages asked for
  more,      \* has_more_page
  early,     \* stopped_early
  listed,    \* source.listed
  fresh,     \* documents written since the last commit
  clash,     \* the session holds two inserts of one unique key
  faults,
  \* history
  whole,     \* while quiet: windows this run listed to their end
  quiet,     \* the source has not changed since this run began
  last,      \* the newest OK run the source did not change during or since
  away,      \* documents not live in this window at some time of its listing
  slipped,   \* the listing lost a row, or reordered, with a page still to come
  looked     \* windows some run listed and did not stop early in

source  == <<src, clock>>
store   == <<rm, db, covered>>
run     == <<pc, kind, since, win>>
listing == <<mark, known, rows, page, more, early, listed>>
txn     == <<fresh, clash>>
history == <<whole, quiet, last, away, slipped, looked>>
vars    == <<source, store, run, listing, txn, history, faults>>

Row      == [doc : Doc, stamp : Stamp, live : BOOLEAN]
HeldRow  == [win : Win, ver : Stamp, lines : SUBSET Lines]
Reading  == [ver : Stamp, lines : SUBSET Lines]
Store    == [held : [Doc -> HeldRow \cup {None}],
             ev   : [Doc -> Seq(Reading)],
             cur  : [Doc -> Stamp]]
Outcome  == [kind : Kinds, since : Win, whole : SUBSET Win]

ASSUME NoneAssumption == None \notin HeldRow \cup Outcome

TypeOK ==
  /\ src \in [Doc -> [status : {"absent", "live", "void", "gone"},
                      win : Win, stamp : Stamp, lines : SUBSET Lines]]
  /\ clock \in Stamp
  /\ rm \in Store /\ db \in Store
  /\ covered \in 1..Windows + 1
  /\ pc \in {"idle", "window", "listing", "finishing"}
  /\ kind \in Kinds /\ since \in Win /\ win \in Win
  /\ mark \in Stamp /\ known \in [Doc -> Stamp]
  /\ rows \in SUBSET Row
  /\ page \in 0..MaxPages /\ more \in BOOLEAN /\ early \in BOOLEAN
  /\ listed \in SUBSET Doc /\ fresh \in SUBSET Doc /\ clash \in BOOLEAN
  /\ faults \in 0..MaxFaults
  /\ whole \in SUBSET Win /\ quiet \in BOOLEAN
  /\ last \in Outcome \cup {None}
  /\ away \in SUBSET Doc /\ slipped \in BOOLEAN /\ looked \in SUBSET Win

Nothing == [held |-> [d \in Doc |-> None], ev |-> [d \in Doc |-> <<>>],
            cur |-> [d \in Doc |-> 0]]

\* A document the books do not have: never, or no longer.
Without(status) == [status |-> status, win |-> 1, stamp |-> 0, lines |-> {}]

\* The connection has just been linked; its books already hold documents.
Init ==
  /\ \E D \in SUBSET Doc, w \in [Doc -> Win] :
       src = [d \in Doc |->
                IF d \in D THEN [status |-> "live", win |-> w[d], stamp |-> d, lines |-> OldBody[d]]
                           ELSE Without("absent")]
  /\ clock = Docs
  /\ rm = Nothing /\ db = Nothing /\ covered = Windows + 1
  /\ pc = "idle" /\ kind = "nightly" /\ since = 1 /\ win = 1
  /\ mark = 0 /\ known = Nothing.cur /\ rows = {} /\ page = 0
  /\ more = FALSE /\ early = FALSE /\ listed = {}
  /\ fresh = {} /\ clash = FALSE /\ faults = 0
  /\ whole = {} /\ quiet = FALSE /\ last = None
  /\ away = {} /\ slipped = FALSE /\ looked = {}
-----------------------------------------------------------------------------
(* The source.                                                             *)

Shown(d) == src[d].status \in {"live", "void"}

\* A change of d while its book is being listed: what the listing can have missed.
Notice(d, moved) ==
  /\ clock' = clock + 1
  /\ quiet' = FALSE /\ last' = None /\ whole' = {}
  /\ away' = IF pc = "listing" /\ (src'[d].status # "live" \/ src'[d].win # win)
             THEN away \cup {d} ELSE away
  /\ slipped' = (slipped \/ (pc = "listing" /\ more /\ moved))
  /\ UNCHANGED <<store, run, listing, txn, looked, faults>>

Written(d, status, w, b) ==
  src' = [src EXCEPT ![d] = [status |-> status, win |-> w, stamp |-> clock + 1, lines |-> b]]

Create(d) ==
  /\ clock < MaxClock /\ src[d].status = "absent"
  /\ \E w \in Win, b \in Bodies : Written(d, "live", w, b)
  /\ Notice(d, FALSE)

\* The lines edited, the date moved, the document voided or taken back: each
\* moves last_modified_time.
Edit(d) ==
  /\ clock < MaxClock /\ Shown(d)
  /\ \/ \E b \in Bodies : Written(d, src[d].status, src[d].win, b)
     \/ \E w \in Win : Written(d, src[d].status, w, src[d].lines)
     \/ \E s \in {"live", "void"} : Written(d, s, src[d].win, src[d].lines)
  /\ Notice(d, src[d].win = win /\ (mark > 0 \/ src'[d].win # win))

Delete(d) ==
  /\ clock < MaxClock /\ Shown(d)
  /\ src' = [src EXCEPT ![d] = Without("gone")]
  /\ Notice(d, src[d].win = win)
-----------------------------------------------------------------------------
(* A run begins; a window is armed.                                        *)

Resume == kind # "rebuild"

\* execute_sync up to its first window: a rebuild clears the cursor, and the
\* next phase boundary commits that.
StartRun(k, s) ==
  /\ pc = "idle"
  /\ pc' = "window" /\ kind' = k /\ since' = s /\ win' = s
  /\ rm' = IF k = "rebuild" THEN [rm EXCEPT !.cur = [d \in Doc |-> 0]] ELSE rm
  /\ db' = rm'
  /\ whole' = {} /\ quiet' = TRUE
  /\ UNCHANGED <<source, covered, listing, txn, last, away, slipped, looked, faults>>

\* mutant: every window of an incremental run is armed
ArmedAlways(w) == kind = "nightly"

\* _window_already_covered: no mark for a window no OK run has covered.
Armed(w) == kind = "nightly" /\ w >= covered

\* ingested_high_water, of the rows committed so far, this run's included.
HighWater(m) ==
  /\ m = 0 \/ \E d \in Doc : db.cur[d] = m
  /\ \A d \in Doc : db.cur[d] <= m

\* What Zoho lists of a window: the documents dated in it, whatever their status.
Book(w) == {d \in Doc : Shown(d) /\ src[d].win = w}

\* sort_column, sort_order D: by stamp with a mark, by date without one.
Precedes(d, e, m) == IF m > 0 THEN src[d].stamp > src[e].stamp ELSE d > e
Rank(d, w, m) == Cardinality({e \in Book(w) : Precedes(e, d, m)})

\* _paginate's page n of a window, as the source stands when it is asked.
PageRows(n, w, m) ==
  {[doc |-> d, stamp |-> src[d].stamp, live |-> src[d].status = "live"] :
     d \in {e \in Book(w) : Rank(e, w, m) \div PageSize = n - 1}}

\* mutant: off by one
HasMoreThanOne(n, w) == Cardinality(Book(w)) > n * PageSize + 1

\* page_context.has_more_page
HasMore(n, w) == Cardinality(Book(w)) > n * PageSize

\* run_documents: arm the source, take the skipper's index, ask for page one.
OpenWindow ==
  /\ pc = "window"
  /\ pc' = "listing"
  /\ \E m \in Stamp :
       /\ IF Armed(win) THEN HighWater(m) ELSE m = 0
       /\ mark' = m /\ rows' = PageRows(1, win, m)
  /\ known' = IF Resume THEN rm.cur ELSE Nothing.cur
  /\ page' = 1 /\ more' = HasMore(1, win)
  /\ early' = FALSE /\ listed' = {}
  /\ away' = {d \in Doc : src[d].status # "live" \/ src[d].win # win}
  /\ slipped' = FALSE
  /\ UNCHANGED <<source, store, kind, since, win, txn, whole, quiet, last, looked, faults>>

NextPage ==
  /\ pc = "listing" /\ rows = {} /\ more /\ page < MaxPages
  /\ page' = page + 1
  /\ rows' = PageRows(page + 1, win, mark) /\ more' = HasMore(page + 1, win)
  /\ UNCHANGED <<source, store, run, mark, known, early, listed, txn, history, faults>>
-----------------------------------------------------------------------------
(* One row of the listing.                                                 *)

\* The row the generator yields next.
IsNext(r) ==
  /\ pc = "listing" /\ r \in rows
  /\ \A q \in rows \ {r} : IF mark > 0 THEN r.stamp > q.stamp ELSE r.doc > q.doc

AtMark(r) == mark > 0 /\ r.stamp <= mark

\* The first row at or below the mark ends the listing.
StopAtMark(r) ==
  /\ IsNext(r) /\ AtMark(r)
  /\ early' = TRUE /\ rows' = {} /\ more' = FALSE
  /\ UNCHANGED <<source, store, run, mark, known, page, listed, txn, history, faults>>

\* mutant: a void document counts as seen
SeeVoid(r) ==
  /\ IsNext(r) /\ ~AtMark(r) /\ ~r.live
  /\ rows' = rows \ {r} /\ listed' = listed \cup {r.doc}
  /\ UNCHANGED <<source, store, run, mark, known, page, more, early, txn, history, faults>>

\* A void document is not recorded as seen.
PassOver(r) ==
  /\ IsNext(r) /\ ~AtMark(r) /\ ~r.live
  /\ rows' = rows \ {r}
  /\ UNCHANGED <<source, store, run, mark, known, page, more, early, listed, txn, history, faults>>

\* mutant: the resume check asks only whether the document is held
HeldAtAnyStamp(r) == known[r.doc] # 0

\* already_have
AlreadyHave(r) == known[r.doc] # 0 /\ known[r.doc] = r.stamp

Resumed(r) ==
  /\ IsNext(r) /\ ~AtMark(r) /\ r.live /\ AlreadyHave(r)
  /\ listed' = listed \cup {r.doc} /\ rows' = rows \ {r}
  /\ UNCHANGED <<source, store, run, mark, known, page, more, early, txn, history, faults>>

\* upsert_invoice and upsert_sales_txn, by key: a line the source dropped stays.
Upserted(d) ==
  [win |-> src[d].win, ver |-> src[d].stamp,
   lines |-> src[d].lines \cup (IF rm.held[d] = None THEN {} ELSE rm.held[d].lines)]

ReadingOf(d) == [ver |-> src[d].stamp, lines |-> src[d].lines]

\* mutant: the earlier readings of a document are not superseded
RecordedBeside(d) == Append(rm.ev[d], ReadingOf(d))

\* supersede, then record.  The UPDATE retires what the database has of the document;
\* it does not reach what this session has added and not flushed (autoflush is off),
\* so a reading of the same commit stays live beside this one.
Recorded(d) == Append(IF d \in fresh THEN rm.ev[d] ELSE <<>>, ReadingOf(d))

\* mark_ingested: not reached when normalize_invoice refuses the document.
Mark(r) == IF src[r.doc].lines = {} THEN rm.cur[r.doc] ELSE r.stamp

\* A second reading in one commit inserts again what the first one inserted.
InsertsTwice(d) ==
  /\ d \in fresh
  /\ \/ db.held[d] = None
     \/ src[d].lines # {} /\ db.cur[d] = 0 /\ rm.cur[d] # 0
     \/ (src[d].lines \cap rm.held[d].lines) \ db.held[d].lines # {}

Fetch(r) ==
  /\ IsNext(r) /\ ~AtMark(r) /\ r.live /\ ~AlreadyHave(r) /\ Shown(r.doc)
  /\ listed' = listed \cup {r.doc} /\ rows' = rows \ {r}
  /\ rm' = [held |-> [rm.held EXCEPT ![r.doc] = Upserted(r.doc)],
            ev   |-> [rm.ev EXCEPT ![r.doc] = Recorded(r.doc)],
            cur  |-> [rm.cur EXCEPT ![r.doc] = Mark(r)]]
  /\ fresh' = fresh \cup {r.doc}
  /\ clash' = (clash \/ InsertsTwice(r.doc))
  /\ UNCHANGED <<source, db, covered, run, mark, known, page, more, early, history, faults>>
-----------------------------------------------------------------------------
(* A window ends: the sweep, and the commit at the phase boundary.         *)

\* _paginate ran out of pages to ask for.
Truncated == more /\ page = MaxPages

\* mutant: a listing cut off at the page limit counts as complete
CompleteIfNotEarly == ~early

\* source.listing_complete
Complete == ~early /\ ~Truncated

\* ingested_in_window: rows dated in the window whose reference the cursor has.
InWindow(w) == {d \in Doc : db.held[d] # None /\ db.held[d].win = w /\ db.cur[d] # 0}

\* _mirror
Retired == IF Complete THEN InWindow(win) \ listed ELSE {}

\* mutant: the cursor row of a retired document stays
RetireRows(s, D) == [s EXCEPT !.held = [d \in Doc |-> IF d \in D THEN None ELSE s.held[d]],
                              !.ev = [d \in Doc |-> IF d \in D THEN <<>> ELSE s.ev[d]]]

\* mutant: the sweep does not supersede
RetireUnlogged(s, D) == [s EXCEPT !.held = [d \in Doc |-> IF d \in D THEN None ELSE s.held[d]],
                                  !.cur = [d \in Doc |-> IF d \in D THEN 0 ELSE s.cur[d]]]

\* supersede and retire_document
Retire(s, D) == [held |-> [d \in Doc |-> IF d \in D THEN None ELSE s.held[d]],
                 ev   |-> [d \in Doc |-> IF d \in D THEN <<>> ELSE s.ev[d]],
                 cur  |-> [d \in Doc |-> IF d \in D THEN 0 ELSE s.cur[d]]]

\* The window's source object goes, and what the history says of its listing.
DropListing ==
  /\ mark' = 0 /\ known' = Nothing.cur /\ rows' = {} /\ page' = 0
  /\ more' = FALSE /\ early' = FALSE /\ listed' = {} /\ fresh' = {}
  /\ away' = {} /\ slipped' = FALSE

EndRun ==
  /\ pc' = "idle" /\ kind' = "nightly" /\ since' = 1 /\ win' = 1
  /\ DropListing /\ clash' = FALSE
  /\ whole' = {} /\ quiet' = FALSE

CloseWindow ==
  /\ pc = "listing" /\ rows = {} /\ (~more \/ Truncated) /\ ~clash
  /\ rm' = Retire(rm, Retired) /\ db' = rm'
  /\ pc' = IF win = Windows THEN "finishing" ELSE "window"
  /\ win' = IF win = Windows THEN win ELSE win + 1
  /\ whole' = IF quiet /\ Complete THEN whole \cup {win} ELSE whole
  /\ looked' = IF early THEN looked ELSE looked \cup {win}
  /\ DropListing
  /\ UNCHANGED <<source, covered, kind, since, clash, quiet, last, faults>>

\* The flush is refused: _revive rolls back to the last phase boundary.
Refused ==
  /\ pc = "listing" /\ rows = {} /\ (~more \/ Truncated) /\ clash
  /\ rm' = db
  /\ EndRun
  /\ UNCHANGED <<source, db, covered, last, looked, faults>>

\* covered_since, over the runs that finished OK.
CoveredNow == IF since < covered THEN since ELSE covered

\* status OK
Finish ==
  /\ pc = "finishing"
  /\ covered' = CoveredNow
  /\ last' = IF quiet THEN [kind |-> kind, since |-> since, whole |-> whole] ELSE last
  /\ EndRun
  /\ UNCHANGED <<source, rm, db, looked, faults>>

\* A 404 on the detail of a document deleted since its page was listed.
DetailGone(r) ==
  /\ IsNext(r) /\ ~AtMark(r) /\ r.live /\ ~AlreadyHave(r) /\ ~Shown(r.doc)
  /\ db' = IF clash THEN db ELSE rm
  /\ rm' = db'
  /\ EndRun
  /\ UNCHANGED <<source, covered, last, looked, faults>>

\* Throttled, or any other exception: PARTIAL, and what was read is committed.
Fail ==
  /\ pc # "idle" /\ faults < MaxFaults
  /\ db' = IF clash THEN db ELSE rm
  /\ rm' = db'
  /\ EndRun
  /\ faults' = faults + 1
  /\ UNCHANGED <<source, covered, last, looked>>

\* The process dies: what was not committed is lost.
Kill ==
  /\ pc # "idle" /\ faults < MaxFaults
  /\ rm' = db
  /\ EndRun
  /\ faults' = faults + 1
  /\ UNCHANGED <<source, db, covered, last, looked>>
-----------------------------------------------------------------------------
SourceStep == \E d \in Doc : Create(d) \/ Edit(d) \/ Delete(d)

RowStep == \E r \in rows :
  StopAtMark(r) \/ PassOver(r) \/ Resumed(r) \/ Fetch(r) \/ DetailGone(r)

\* The run going on.
PullStep == OpenWindow \/ RowStep \/ NextPage \/ CloseWindow \/ Refused \/ Finish

Next ==
  \/ SourceStep
  \/ \E k \in Kinds, s \in Win : StartRun(k, s)
  \/ PullStep
  \/ Fail
  \/ Kill

Spec == Init /\ [][Next]_vars

\* A run under way goes on; the weekly reconciliation over the whole history
\* (sync_all.py: "Run it weekly") starts sooner or later, whatever else does.
Fairness ==
  /\ WF_vars(PullStep)
  /\ SF_vars(StartRun("reconcile", 1))

FairSpec == Spec /\ Fairness
-----------------------------------------------------------------------------
(* Properties.                                                             *)

CursorIn(s) ==
  \A d \in Doc : s.cur[d] # 0 =>
    /\ s.held[d] # None
    /\ s.cur[d] <= s.held[d].ver

\* The cursor says a document is held at a stamp only while its rows are there,
\* written from a reading at least as new: in the session and in what a killed
\* or failed run leaves committed.  (ingested_high_water: "This cannot get
\* ahead of the rows, because it *is* the rows"; retire_document.)
CursorBehindRows == CursorIn(rm) /\ CursorIn(db)

Newest(s, d) == s.ev[d][Len(s.ev[d])]

LogIn(s) ==
  \A d \in Doc :
    /\ s.held[d] = None <=> s.ev[d] = <<>>
    /\ s.held[d] # None =>
         /\ Newest(s, d).ver = s.held[d].ver
         /\ \A i \in DOMAIN s.ev[d] : /\ s.ev[d][i].ver <= s.held[d].ver
                                     /\ s.ev[d][i].lines \subseteq s.held[d].lines

\* The event log and the read model believe the same documents; the newest reading
\* the log believes is the version the rows have, none is newer, and every line it
\* believes has its row (_sync_invoices, _mirror: supersede beside every write and
\* every delete).
LogWithinRows == LogIn(rm) /\ LogIn(db)

\* supersede is to retire "every live event read from one document": a run leaves two
\* live readings of a document only if the source changed under it, and so listed the
\* document twice.  (That it does then is what EventLog.supersede cannot see.)
SecondReadingNeedsCause ==
  [][\A d \in Doc : Len(db'.ev[d]) > 1 => db'.ev[d] = db.ev[d] \/ ~quiet]_vars

\* Coverage is real: every window at or after the floor an incremental listing
\* trusts was listed by some run that did not stop at a mark
\* (_window_already_covered: "a silent, total data-loss bug").
CoverageIsReal == \A w \in Win : w >= covered => w \in looked

CurrentIn(s, d) ==
  /\ s.held[d] # None
  /\ s.held[d].win = src[d].win /\ s.held[d].ver = src[d].stamp
  /\ src[d].lines \subseteq s.held[d].lines
  /\ Newest(s, d) = ReadingOf(d)

Current(d) == CurrentIn(db, d)

\* After an OK run, the source unchanged since it began, every live document of
\* a window it listed to the end is committed at its newest version, whether it
\* was read by that run or skipped as already held (_documents, _skipper).  A rebuild,
\* which skips nothing, leaves the log that one reading of it; other runs may keep an
\* older one beside it, which an earlier run has left.
FullListingMirrors ==
  last # None =>
    \A d \in Doc : src[d].status = "live" /\ src[d].win \in last.whole =>
      /\ Current(d)
      /\ last.kind = "rebuild" => Len(db.ev[d]) = 1

\* And what the cursor knows of such a window and the source no longer has live
\* there is gone (_mirror: "leave PIE a mirror of the source").
FullListingSweeps ==
  last # None =>
    \A d \in Doc :
      db.held[d] # None /\ db.cur[d] # 0 /\ db.held[d].win \in last.whole
        => src[d].status = "live" /\ src[d].win = db.held[d].win

\* A step of a run removes a committed document only if it was not live in the
\* window at some time of the listing, or the source reordered under the pages
\* still to come (_mirror: "deleting on absence is the one operation here that
\* can destroy real history").
RetireNeedsCause ==
  [][\A d \in Doc : db.held[d] # None /\ db'.held[d] = None => d \in away \/ slipped]_vars

Fits(w) == Cardinality(Book(w)) <= PageSize * MaxPages

\* Once the source, the failures and the kills are over, the weekly
\* reconciliation makes and keeps the read model right, whatever nightly pulls
\* missed before and whatever runs come after: the rows and the newest reading of every
\* live document are current, and nothing the cursor knows of outlives its source
\* (sync_all.py).  It does not heal the log: an older reading left live beside the newest
\* stays, since already_have skips the document until it changes.
Healed ==
  <>[](\A d \in Doc :
         /\ src[d].status = "live" /\ Fits(src[d].win) => Current(d)
         /\ db.held[d] # None /\ db.cur[d] # 0 /\ Fits(db.held[d].win)
              => src[d].status = "live")

\* What run_documents says of the mark: "an old window whose documents have not
\* been touched since the last pull stops on its first page", so a nightly pull
\* that finished OK has read every change there was when it began.
NightlyReads ==
  last # None =>
    \A d \in Doc :
      src[d].status = "live" /\ src[d].win >= last.since /\ Fits(src[d].win) => Current(d)
=============================================================================
