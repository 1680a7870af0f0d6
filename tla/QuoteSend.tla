------------------------------ MODULE QuoteSend ------------------------------
(* One quote line on its way out: approvals.py and routers/approvals.py, the
   two ways out of routers/quote.py (create_estimate and mark_sent), what
   commercial/quote_service.py keeps of them, and the settlement of a write
   whose answer was lost (ingestion/write_settle.py).

   The line is its price, and the price its fingerprint.  A price below the
   floor needs an approval.  Sessions are READ COMMITTED, and the ORM updates by
   primary key the columns whose value it changed.  A revision has a reference
   of its own (quote_service.revision_reference) and stands for it.

   One press at a time is on its way; approvers and sellers are any number.  The
   source holds what it holds at once: nothing lands after it was looked for. *)
EXTENDS Integers, Sequences, FiniteSets

CONSTANTS
  Sellers,      \* requests of the desk: raise, withdraw, record a snapshot
  Approvers,    \* requests of those who decide
  Settings      \* prices, the first that needs no approval, and bounds on
                \* requests raised, documents written and faults

ASSUME QuoteAssumption ==
  Settings \subseteq [prices : SUBSET (Nat \ {0}), floor : Nat,
                      requests : Nat, rows : Nat, faults : Nat]

VARIABLES
  price,     \* the saved quote's
  requests,  \* approval_requests of the line, by requested_at
  seller,    \* per session: what it is doing, and the request as it read it
  approver,  \* per session: the request it was shown, and as it loaded it
  press,     \* the send on its way
  books,     \* the documents the source holds for this quote
  rows,      \* quote_documents, oldest first
  outcome,   \* quote_outcomes: how the quote stands, and about which document
  given, faults,
  cut        \* history: a press ended between its row and its outcome

people == <<seller, approver>>
vars == <<price, requests, seller, approver, press, books, rows, outcome,
          given, faults, cut>>

Open == {"PENDING", "CHANGES_REQUESTED"}
Verdicts == {"APPROVED", "REJECTED", "CHANGES_REQUESTED"}
Prices == Nat \ {0}

\* shown is the lowest price an approver who approved it had been shown, 0 for
\* none; moved, that its subject was replaced under somebody's eyes.
Requests == [status : Open \cup Verdicts \cup {"WITHDRAWN"}, price : Prices,
             shown : Nat, moved : BOOLEAN]
SellerState == [job : {"idle", "raise", "withdraw", "record"}, price : Nat,
                id : Nat, status : Open \cup {"none"}, was : Nat]
ApproverState == [id : Nat, shown : Nat, loaded : Open \cup {"none"}]
Steps == {"idle", "assessed", "cleared", "posting", "unsure",
          "landed", "recorded", "noting"}
Outcomes == {"none", "DRAFT", "SENT", "WON", "LOST"}
PressState == [step : Steps, manual : BOOLEAN, price : Nat,
               rev : Nat, retrying : BOOLEAN, was : Nat,
               judged : Nat, by : Nat, doc : Nat,
               how : {"none", "created", "found", "settled"}, prev : Nat,
               seen : Outcomes, about : Nat]
Documents == [rev : Nat, price : Prices, noted : BOOLEAN]
Rows == [rev : Nat, price : Prices, doc : Nat,
         channel : {"ERP", "MANUAL"}, state : {"WRITTEN", "UNVERIFIED"},
         retried : BOOLEAN, how : {"none", "created", "found", "settled"}]

TypeOK ==
  /\ price \in Prices
  /\ requests \in Seq(Requests)
  /\ seller \in [Sellers -> SellerState]
  /\ approver \in [Approvers -> ApproverState]
  /\ press \in PressState
  /\ books \in Seq(Documents) /\ rows \in Seq(Rows)
  /\ outcome \in [status : Outcomes, doc : Nat]
  /\ given \in Settings /\ faults \in Nat /\ cut \in BOOLEAN

NoJob == [job |-> "idle", price |-> 0, id |-> 0, status |-> "none", was |-> 0]
NoHand == [id |-> 0, shown |-> 0, loaded |-> "none"]
NoPress == [step |-> "idle", manual |-> FALSE, price |-> 0, rev |-> 0,
            retrying |-> FALSE, was |-> 0, judged |-> 0, by |-> 0, doc |-> 0,
            how |-> "none", prev |-> 0, seen |-> "none", about |-> 0]

Init ==
  /\ given \in Settings /\ price \in given.prices
  /\ requests = <<>> /\ books = <<>> /\ rows = <<>>
  /\ seller = [s \in Sellers |-> NoJob]
  /\ approver = [a \in Approvers |-> NoHand]
  /\ press = NoPress
  /\ outcome = [status |-> "none", doc |-> 0]
  /\ faults = 0 /\ cut = FALSE

Fault == faults < given.faults /\ faults' = faults + 1

\* A colleague or another tab saves the quote; save checks no version.
Reprice(p) ==
  /\ p # price /\ price' = p
  /\ UNCHANGED <<requests, people, press, books, rows, outcome, faults, cut>>

-----------------------------------------------------------------------------
(* Approvals: raise, withdraw, release, decide.                             *)

\* approvals.open_request_for: the newest open request, 0 for none.
OpenRequests == {i \in DOMAIN requests : requests[i].status \in Open}
OpenRequest ==
  IF OpenRequests = {} THEN 0
  ELSE CHOOSE i \in OpenRequests : \A j \in OpenRequests : j <= i

\* What the session has read of a request; later writes are by its id.
Read(s, job, p, i) ==
  seller' = [seller EXCEPT ![s] =
    [job |-> job, price |-> p, id |-> i,
     status |-> IF i = 0 THEN "none" ELSE requests[i].status,
     was |-> IF i = 0 THEN 0 ELSE requests[i].price]]

\* The three things a desk does read a request first.  The price a request or
\* a snapshot is about comes from the screen, and need not be the saved one.
Look(s, job, p) ==
  /\ seller[s].job = "idle" /\ given.requests > 0
  /\ \/ job = "raise" /\ p < given.floor /\ Read(s, job, p, OpenRequest)
     \/ job = "record" /\ Read(s, job, p, IF p < given.floor THEN 0 ELSE OpenRequest)
     \/ job = "withdraw" /\ \E i \in OpenRequests : Read(s, job, 0, i)
  /\ UNCHANGED <<price, requests, approver, press, books, rows, outcome,
                 faults, cut>>

Finish(s) == seller' = [seller EXCEPT ![s] = NoJob]

\* Somebody is deciding it, or has since it was read.
UnderEyes(i) ==
  \/ requests[i].status \notin Open
  \/ \E a \in Approvers : approver[a].id = i

\* The subject and, when the request read was a returned one, the status.
Resubmitted(r, seen, i) ==
  [r EXCEPT !.price = IF seen.price = seen.was THEN @ ELSE seen.price,
            !.status = IF seen.status = "PENDING" THEN @ ELSE "PENDING",
            !.moved = @ \/ (seen.price # seen.was /\ UnderEyes(i))]

Raise(s) ==
  /\ seller[s].job = "raise"
  /\ IF seller[s].id = 0
     THEN /\ Len(requests) < given.requests
          /\ requests' = Append(requests,
               [status |-> "PENDING", price |-> seller[s].price,
                shown |-> 0, moved |-> FALSE])
     ELSE requests' = [requests EXCEPT ![seller[s].id] =
                         Resubmitted(@, seller[s], seller[s].id)]
  /\ Finish(s)
  /\ UNCHANGED <<price, approver, press, books, rows, outcome, faults, cut>>

Withdrawn(i) ==
  IF i = 0 THEN requests ELSE [requests EXCEPT ![i].status = "WITHDRAWN"]

Withdraw(s) ==
  /\ seller[s].job = "withdraw"
  /\ requests' = Withdrawn(seller[s].id)
  /\ Finish(s)
  /\ UNCHANGED <<price, approver, press, books, rows, outcome, faults, cut>>

(* The snapshot endpoint, once its last statement, set_outcome to DRAFT, has
   been accepted.  Its row may be stamped later than that of a press waiting
   for its gate: the gate then judges this one. *)
Record(s) ==
  /\ seller[s].job = "record" /\ outcome.status \in {"none", "DRAFT"}
  /\ requests' = Withdrawn(seller[s].id)
  /\ outcome' = [outcome EXCEPT !.status = "DRAFT"]
  /\ \/ UNCHANGED press
     \/ press.step = "assessed" /\ press' = [press EXCEPT !.judged = seller[s].price]
  /\ Finish(s)
  /\ UNCHANGED <<price, approver, books, rows, faults, cut>>

\* Not found, already answered, InvalidTransition, or the request dies.
GiveUp(s) ==
  /\ seller[s].job # "idle"
  /\ Finish(s)
  /\ UNCHANGED <<price, requests, approver, press, books, rows, outcome,
                 faults, cut>>

\* The inbox shows an open request and what it is about.
Show(a, i) ==
  /\ approver[a].loaded = "none"
  /\ approver' = [approver EXCEPT ![a] =
       [id |-> i, shown |-> requests[i].price, loaded |-> "none"]]
  /\ UNCHANGED <<price, requests, seller, press, books, rows, outcome, faults,
                 cut>>

\* decide_approval reads the request, and finds it open.
Load(a) ==
  /\ approver[a].id \in OpenRequests /\ approver[a].loaded = "none"
  /\ approver' = [approver EXCEPT ![a].loaded = requests[approver[a].id].status]
  /\ UNCHANGED <<price, requests, seller, press, books, rows, outcome, faults,
                 cut>>

\* The screen is left; 409 for a request that was answered meanwhile.
PutDown(a) ==
  /\ approver[a].id # 0
  /\ approver' = [approver EXCEPT ![a] = NoHand]
  /\ UNCHANGED <<price, requests, seller, press, books, rows, outcome, faults,
                 cut>>

Lowest(old, new) == IF old = 0 \/ new < old THEN new ELSE old

\* approvals.decide: the verdict, by id, whatever the row has become.
Decided(r, hand, verdict) ==
  [r EXCEPT !.status = IF verdict = hand.loaded THEN @ ELSE verdict,
            !.shown = IF verdict = "APPROVED" THEN Lowest(@, hand.shown) ELSE @]

Decide(a, verdict) ==
  /\ approver[a].loaded # "none"
  /\ requests' = [requests EXCEPT ![approver[a].id] =
                    Decided(@, approver[a], verdict)]
  /\ approver' = [approver EXCEPT ![a] = NoHand]
  /\ UNCHANGED <<price, seller, press, books, rows, outcome, faults, cut>>

-----------------------------------------------------------------------------
(* The press: plan, assess, gate.                                           *)

Newest == rows[Len(rows)]
Retrying == rows # <<>> /\ Newest.state = "UNVERIFIED"

\* _revision_plan: nothing has changed since the newest row.
Covers(manual) ==
  /\ rows # <<>> /\ ~Retrying
  /\ Newest.price = price
  /\ manual \/ Newest.channel # "MANUAL"

\* Mutant: a retry counts as a revision.
EveryPressCounts == IF rows = <<>> THEN 1 ELSE Newest.rev + 1

\* _revision_plan: the revision, and with it the reference, of the next press.
NextRevision ==
  IF rows = <<>> THEN 1 ELSE IF Retrying THEN Newest.rev ELSE Newest.rev + 1

(* create_estimate (manual FALSE) and mark_sent read the quote and its rows, then
   assess_and_record flushes a snapshot: the newest of the line, for now. *)
Plan(manual) ==
  /\ press.step = "idle" /\ ~Covers(manual) /\ ~(manual /\ Retrying)
  /\ press' = [NoPress EXCEPT !.step = "assessed", !.manual = manual,
                 !.price = price, !.judged = price, !.rev = NextRevision,
                 !.retrying = Retrying,
                 !.was = IF Retrying THEN Newest.price ELSE 0]
  /\ UNCHANGED <<price, requests, people, books, rows, outcome, faults, cut>>

\* Mutant: the approval is the line's, whatever was approved.
CoversAnyPrice(i) == i # 0 /\ requests[i].status = "APPROVED"

\* quote_submission_block: the newest request of the line is approved, and
\* _covers the snapshot.
Covered(i) ==
  /\ i # 0 /\ requests[i].status = "APPROVED"
  /\ press.judged >= requests[i].price

\* The line needs it by its snapshot or, also_requiring, by what it shows.
NeedsApproval == press.judged < given.floor \/ press.price < given.floor

Judge ==
  /\ press.step = "assessed"
  /\ \/ /\ NeedsApproval /\ ~Covered(Len(requests)) /\ press' = NoPress
     \/ /\ NeedsApproval => Covered(Len(requests))
        /\ press' = [press EXCEPT !.step = "cleared", !.by = Len(requests)]
  /\ UNCHANGED <<price, requests, people, books, rows, outcome, faults, cut>>

-----------------------------------------------------------------------------
(* create_sales_quotes: what the source answers.                            *)

\* Mutant: a first send does not ask.
FoundOnRetry(rev) ==
  {i \in DOMAIN books : press.retrying /\ books[i].rev = rev}

\* _estimate_by_reference.
Found(rev) == {i \in DOMAIN books : books[i].rev = rev}

Landed(i, how) == press' = [press EXCEPT !.step = "landed", !.doc = i, !.how = how]

PreFlight ==
  /\ press.step = "cleared" /\ ~press.manual
  /\ \/ \E i \in Found(press.rev) : Landed(i, "found")
     \/ Found(press.rev) = {} /\ press' = [press EXCEPT !.step = "posting"]
  /\ UNCHANGED <<price, requests, people, books, rows, outcome, faults, cut>>

\* SourceUnavailable from the pre-flight, or a refusal of the write.
Refused ==
  /\ press.step \in {"cleared", "posting"} /\ ~press.manual
  /\ press' = NoPress
  /\ UNCHANGED <<price, requests, people, books, rows, outcome, faults, cut>>

Written == Append(books, [rev |-> press.rev, price |-> press.price, noted |-> FALSE])

Post ==
  /\ press.step = "posting" /\ Len(books) < given.rows
  /\ books' = Written /\ Landed(Len(books'), "created")
  /\ UNCHANGED <<price, requests, people, rows, outcome, faults, cut>>

\* The answer is lost, and perhaps the question.
PostLost ==
  /\ press.step = "posting" /\ Len(books) < given.rows /\ Fault
  /\ books' \in {books, Written}
  /\ press' = [press EXCEPT !.step = "unsure"]
  /\ UNCHANGED <<price, requests, people, rows, outcome, cut>>

\* settle_by_read: there, not there, or not to be known.
SettleFound ==
  /\ press.step = "unsure"
  /\ \E i \in Found(press.rev) : Landed(i, "settled")
  /\ UNCHANGED <<price, requests, people, books, rows, outcome, faults, cut>>

SettleNone ==
  /\ press.step = "unsure" /\ Found(press.rev) = {}
  /\ press' = NoPress
  /\ UNCHANGED <<price, requests, people, books, rows, outcome, faults, cut>>

Row(content, doc, channel, state) ==
  [rev |-> press.rev, price |-> content, doc |-> doc, channel |-> channel,
   state |-> state, retried |-> press.retrying, how |-> press.how]

\* The question stays open, on file, under its reference.
SettleFails ==
  /\ press.step = "unsure" /\ Len(rows) < given.rows /\ Fault
  /\ rows' = Append(rows, Row(press.price, 0, "ERP", "UNVERIFIED"))
  /\ books' = [i \in DOMAIN books |->
                 [books[i] EXCEPT !.noted = @ \/ books[i].rev = press.rev]]
  /\ press' = NoPress
  /\ UNCHANGED <<price, requests, people, outcome, cut>>

-----------------------------------------------------------------------------
(* The record and the outcome.                                              *)

\* Mutant: the document before this one, in whichever channel.
LatestInAnyChannel == IF rows = <<>> THEN 0 ELSE Newest.doc

\* latest_written_document of channel ERP, 0 for none.
WrittenRows ==
  {k \in DOMAIN rows : rows[k].state = "WRITTEN" /\ rows[k].channel = "ERP"}
LatestWritten ==
  IF WrittenRows = {} THEN 0
  ELSE rows[CHOOSE k \in WrittenRows : \A l \in WrittenRows : l <= k].doc
Previous == LatestWritten

\* Mutant: the row says what the quote says now.
ContentOfThisPress == press.price

\* What was sent under this reference, as far as the press can tell.
SentContent ==
  IF press.retrying /\ press.how # "created" THEN press.was ELSE press.price

RecordDocument ==
  /\ press.step = "landed" /\ Len(rows) < given.rows
  /\ rows' = Append(rows, Row(SentContent, press.doc, "ERP", "WRITTEN"))
  /\ press' = [press EXCEPT !.step = "recorded",
                            !.prev = IF press.rev > 1 THEN Previous ELSE 0]
  /\ UNCHANGED <<price, requests, people, books, outcome, faults, cut>>

\* The exception is logged, the transaction rolled back, and the press goes on.
RecordFails ==
  /\ press.step = "landed" /\ Fault
  /\ press' = [press EXCEPT !.step = "recorded",
                            !.prev = IF press.rev > 1 THEN Previous ELSE 0]
  /\ UNCHANGED <<price, requests, people, books, rows, outcome, cut>>

RecordMark ==
  /\ press.step = "cleared" /\ press.manual /\ Len(rows) < given.rows
  /\ rows' = Append(rows, Row(press.price, 0, "MANUAL", "WRITTEN"))
  /\ press' = [press EXCEPT !.step = "recorded"]
  /\ UNCHANGED <<price, requests, people, books, outcome, faults, cut>>

(* set_outcome SENT reads the row and writes it by primary key in a later
   statement.  A decided quote stays as it is (InvalidTransition); the document
   moves only from the one the send before this recorded. *)
OwnDocument(i) == \E k \in DOMAIN rows : rows[k].doc = i
MayMove ==
  \/ press.doc = 0 \/ outcome.doc \in {0, press.doc}
  \/ press.prev # 0 /\ outcome.doc = press.prev /\ OwnDocument(press.prev)

ReadOutcome ==
  /\ press.step = "recorded"
  /\ press' = IF outcome.status \in {"WON", "LOST"} \/ ~MayMove THEN NoPress
              ELSE [press EXCEPT !.step = "noting", !.seen = outcome.status,
                                 !.about = outcome.doc]
  /\ UNCHANGED <<price, requests, people, books, rows, outcome, faults, cut>>

\* Somebody else has inserted the row since: a snapshot, or an answer.
Inserted == press.seen = "none" /\ outcome.status # "none"

\* The columns that changed.
WriteOutcome ==
  /\ press.step = "noting" /\ ~Inserted
  /\ outcome' =
       [status |-> IF press.seen = "SENT" THEN outcome.status ELSE "SENT",
        doc |-> IF press.doc \in {0, press.about} THEN outcome.doc ELSE press.doc]
  /\ press' = NoPress
  /\ UNCHANGED <<price, requests, people, books, rows, faults, cut>>

\* IntegrityError: a quote has one outcome.  The row about the document stands.
OutcomeTaken ==
  /\ press.step = "noting" /\ Inserted
  /\ press' = NoPress /\ cut' = TRUE
  /\ UNCHANGED <<price, requests, people, books, rows, outcome, faults>>

\* The customer's answer, as a person records it (allowed_transitions).
Answer(status) ==
  /\ \/ outcome.status = "SENT"
     \/ outcome.status \in {"none", "DRAFT"} /\ status = "LOST"
  /\ outcome' = [outcome EXCEPT !.status = status]
  /\ UNCHANGED <<price, requests, people, press, books, rows, faults, cut>>

\* The process dies; what it had not committed is gone, what the source holds is not.
Crash ==
  /\ press.step # "idle" /\ Fault
  /\ cut' = (cut \/ press.step \in {"recorded", "noting"})
  /\ press' = NoPress
  /\ UNCHANGED <<price, requests, people, books, rows, outcome>>

-----------------------------------------------------------------------------
SellerStep(s) ==
  \/ \E job \in {"raise", "withdraw", "record"}, p \in given.prices : Look(s, job, p)
  \/ Raise(s) \/ Withdraw(s) \/ Record(s) \/ GiveUp(s)

ApproverStep(a) ==
  \/ \E i \in OpenRequests : Show(a, i)
  \/ Load(a) \/ PutDown(a) \/ \E v \in Verdicts : Decide(a, v)

PressStep ==
  \/ \E manual \in BOOLEAN : Plan(manual)
  \/ Judge \/ PreFlight \/ Refused \/ Post \/ PostLost
  \/ SettleFound \/ SettleNone \/ SettleFails
  \/ RecordDocument \/ RecordFails \/ RecordMark
  \/ ReadOutcome \/ WriteOutcome \/ OutcomeTaken \/ Crash

Next ==
  /\ UNCHANGED given
  /\ \/ \E p \in given.prices : Reprice(p)
     \/ \E s \in Sellers : SellerStep(s)
     \/ \E a \in Approvers : ApproverStep(a)
     \/ PressStep
     \/ \E status \in {"WON", "LOST"} : Answer(status)

Spec == Init /\ [][Next]_vars

-----------------------------------------------------------------------------
(* Properties.                                                              *)

(* Whatever was lost, refused, crashed, retried, amended or marked as sent by
   hand, the source never holds two documents under one reference. *)
OneDocument ==
  \A i, j \in DOMAIN books : books[i].rev = books[j].rev => i = j

(* No document in the source is forgotten: a row names it, or the next send
   will ask for its reference and find it.  The exception the code leaves: a
   person marks the quote as sent after a send died without a trace, and the
   mark takes the reference. *)
NothingForgotten ==
  \A i \in DOMAIN books :
    \/ \E k \in DOMAIN rows : rows[k].doc = i
    \/ NextRevision = books[i].rev
    \/ \E k \in DOMAIN rows : rows[k].channel = "MANUAL" /\ rows[k].rev = books[i].rev

(* A row says what its document says.  It may be wrong in two ways only: the
   document was found again although the press that wrote it had left no row,
   or a retry lost its own answer and took its document for the older one. *)
RecordIsTrue ==
  \A k \in DOMAIN rows : LET row == rows[k] IN
    row.doc # 0 =>
      \/ row.price = books[row.doc].price
      \/ row.how = "found" /\ ~books[row.doc].noted
      \/ row.how = "settled" /\ row.retried

(* Below the floor nothing gets past the gate without the approval of somebody
   who had been shown that price or a lower one.  Two gaps only: the request
   was raised again at another price while it was being decided, or another
   snapshot of the line was stamped between the press's own and its gate. *)
SentAsShown ==
  press.step \notin {"idle", "assessed"} /\ press.price < given.floor =>
    \/ press.judged # press.price
    \/ /\ press.by # 0
       /\ \/ requests[press.by].moved
          \/ requests[press.by].shown # 0 /\ requests[press.by].shown <= press.price

(* The outcome follows the quote's newest document, over amendments, retries
   and marks by hand: it is never left on one an older row names, unless the
   process died between the row and the outcome, or the quote's first snapshot
   or answer was recorded there. *)
OutcomeFollows ==
  press.step = "idle" /\ ~cut /\ outcome.status = "SENT" /\ LatestWritten # 0 =>
    \/ outcome.doc = LatestWritten
    \/ outcome.doc # 0 /\ ~OwnDocument(outcome.doc)
=============================================================================
