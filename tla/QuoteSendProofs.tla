--------------------------- MODULE QuoteSendProofs ---------------------------
(* Proofs about QuoteSend, for any number of sellers and approvers and any
   prices, floor and bounds.  Four arguments share the type invariant: what the
   source holds against what is on file (StoreInv, and SendInv for the press on
   its way), what an approval stands on (ApprovalInv), and which document the
   outcome names (NotingInv). *)
EXTENDS QuoteSend, SequenceTheorems, WellFoundedInduction, TLAPS

USE QuoteAssumption

-----------------------------------------------------------------------------
(* Sequences and sets of positions.                                         *)

\* A set of positions has a greatest one: what "the newest row" rests on.
LEMMA GreatestExists ==
  ASSUME NEW n \in Nat, NEW T \in SUBSET (1..n), T # {}
  PROVE  \E m \in T : \A k \in T : k <= m
<1> DEFINE U == {n - k : k \in T}
<1>1. U \subseteq Nat /\ U # {}
  <2>1. \A k \in T : n - k \in Nat
    OBVIOUS
  <2>2. PICK k \in T : TRUE
    OBVIOUS
  <2>3. n - k \in U
    OBVIOUS
  <2> QED
    BY <2>1, <2>3
<1>2. PICK x \in U : \A y \in U : ~ (<<y, x>> \in OpToRel(<, Nat))
  <2>1. IsWellFoundedOn(OpToRel(<, Nat), Nat)
    BY NatLessThanWellFounded
  <2> HIDE DEF U
  <2> QED
    BY <1>1, <2>1, WFMin
<1>3. \A y \in U : ~(y < x)
  BY <1>1, <1>2 DEF OpToRel
<1>4. PICK m \in T : x = n - m
  OBVIOUS
<1>5. ASSUME NEW k \in T PROVE k <= m
  <2>1. n - k \in U
    OBVIOUS
  <2>2. ~(n - k < n - m)
    BY <1>3, <1>4, <2>1
  <2> QED
    BY <2>2
<1> QED
  BY <1>5

\* What Append does to a sequence, in one place.
LEMMA Appending ==
  ASSUME NEW S, NEW s \in Seq(S), NEW e \in S
  PROVE  /\ Append(s, e) \in Seq(S)
         /\ Len(s) \in Nat /\ DOMAIN s = 1..Len(s)
         /\ Len(Append(s, e)) = Len(s) + 1
         /\ DOMAIN Append(s, e) = 1..(Len(s) + 1)
         /\ \A i \in 1..Len(s) : Append(s, e)[i] = s[i] /\ s[i] \in S
         /\ Append(s, e)[Len(s) + 1] = e
  BY AppendProperties

\* A sequence rewritten at one position, or at none.
LEMMA Updating ==
  ASSUME NEW S, NEW s \in Seq(S), NEW i, NEW e, i \in DOMAIN s => e \in S,
         NEW t, t = [s EXCEPT ![i] = e]
  PROVE  /\ t \in Seq(S) /\ Len(t) = Len(s) /\ DOMAIN t = DOMAIN s
         /\ \A j \in DOMAIN s : t[j] = IF j = i THEN e ELSE s[j]
<1>1. Len(s) \in Nat /\ DOMAIN s = 1..Len(s) /\ \A j \in DOMAIN s : s[j] \in S
  OBVIOUS
<1>2. t \in [1..Len(s) -> S]
  BY <1>1
<1>3. t \in Seq(S)
  BY <1>1, <1>2, SeqDef
<1>4. DOMAIN t = DOMAIN s /\ Len(t) = Len(s)
  BY <1>1, <1>2, <1>3
<1> QED
  BY <1>1, <1>3, <1>4

\* A function on 1..n is a sequence.
LEMMA Tabulated ==
  ASSUME NEW S, NEW n \in Nat, NEW t \in [1..n -> S]
  PROVE  t \in Seq(S) /\ Len(t) = n /\ DOMAIN t = 1..n
<1>1. t \in Seq(S)
  BY SeqDef
<1> QED
  BY <1>1

\* open_request_for returns an open request or nothing.
LEMMA OpenRequestIn ==
  ASSUME requests \in Seq(Requests)
  PROVE  OpenRequest = 0 \/ OpenRequest \in OpenRequests
<1>1. OpenRequests \in SUBSET (1..Len(requests)) /\ Len(requests) \in Nat
  BY DEF OpenRequests
<1> QED
  BY <1>1, GreatestExists DEF OpenRequest

-----------------------------------------------------------------------------
(* Types.                                                                   *)

\* What the types leave out: prices that are there are prices.
PricesInv ==
  /\ \A s \in Sellers : seller[s].job = "raise" => seller[s].price \in Prices
  /\ press.step # "idle" => press.price \in Prices
  /\ press.retrying => press.was \in Prices

\* Types and prices together.
Typed == TypeOK /\ PricesInv

\* A setting is a record of its kind.
LEMMA Setting ==
  ASSUME given \in Settings
  PROVE  /\ given.prices \subseteq Prices /\ given.floor \in Nat
         /\ given.requests \in Nat /\ given.rows \in Nat /\ given.faults \in Nat
  BY DEF Prices

\* The desk: raise, withdraw and record keep the types.
LEMMA TypedSeller ==
  ASSUME Typed, NEW s \in Sellers, SellerStep(s), UNCHANGED given
  PROVE  Typed'
<1> USE DEF Typed, TypeOK, PricesInv, people
<1>0. NoJob \in SellerState /\ NoJob.job = "idle"
  BY DEF NoJob, SellerState
<1>1. ASSUME NEW job \in {"raise", "withdraw", "record"}, NEW p \in given.prices, Look(s, job, p)
      PROVE  Typed'
  <2>1. p \in Prices
    BY Setting
  <2>2. OpenRequest = 0 \/ OpenRequest \in OpenRequests
    BY OpenRequestIn
  <2>3. \A i \in OpenRequests : i \in Nat /\ requests[i].status \in Open /\ requests[i].price \in Nat
    <3>1. ASSUME NEW i \in OpenRequests PROVE i \in 1..Len(requests) /\ requests[i] \in Requests
      BY DEF OpenRequests
    <3>2. \A r \in Requests : r.price \in Nat
      BY DEF Requests, Prices
    <3> QED
      BY <3>1, <3>2 DEF OpenRequests
  <2>4. ASSUME NEW q \in {0, p}, NEW i, i = 0 \/ i \in OpenRequests, Read(s, job, q, i),
               job = "raise" => q = p
        PROVE  seller' \in [Sellers -> SellerState] /\ \A t \in Sellers : seller'[t].job = "raise" => seller'[t].price \in Prices
    <3> DEFINE new == [job |-> job, price |-> q, id |-> i,
                       status |-> IF i = 0 THEN "none" ELSE requests[i].status,
                       was |-> IF i = 0 THEN 0 ELSE requests[i].price]
    <3>1. new \in SellerState
      BY <2>1, <2>3, <2>4 DEF SellerState, Prices
    <3>2. new.job = job /\ new.price = q
      OBVIOUS
    <3>3. seller' = [seller EXCEPT ![s] = new]
      BY <2>4 DEF Read
    <3> HIDE DEF new
    <3> QED
      BY <2>1, <2>4, <3>1, <3>2, <3>3
  <2>5. seller' \in [Sellers -> SellerState] /\ \A t \in Sellers : seller'[t].job = "raise" => seller'[t].price \in Prices
    BY <1>1, <2>2, <2>4 DEF Look
  <2> QED
    BY <1>1, <2>5 DEF Look
<1>2. CASE Raise(s)
  <2>1. requests' \in Seq(Requests)
    <3>1. CASE seller[s].id = 0
      <4>1. [status |-> "PENDING", price |-> seller[s].price, shown |-> 0, moved |-> FALSE] \in Requests
        BY <1>2 DEF Raise, Requests, Open
      <4>2. requests' = Append(requests, [status |-> "PENDING", price |-> seller[s].price,
                                         shown |-> 0, moved |-> FALSE])
        BY <1>2, <3>1 DEF Raise
      <4> QED
        BY <4>1, <4>2, Appending
    <3>2. CASE seller[s].id # 0
      <4>1. ASSUME NEW i \in DOMAIN requests
            PROVE  Resubmitted(requests[i], seller[s], i) \in Requests
        <5>1. requests[i] \in Requests /\ seller[s].price \in Prices
          BY <1>2 DEF Raise
        <5>2. (requests[i].moved \/ (seller[s].price # seller[s].was /\ UnderEyes(i))) \in BOOLEAN
          OBVIOUS
        <5> QED
          BY <5>1, <5>2 DEF Resubmitted, Requests, Open
      <4>2. requests' = [requests EXCEPT ![seller[s].id] =
                           Resubmitted(requests[seller[s].id], seller[s], seller[s].id)]
        BY <1>2, <3>2 DEF Raise
      <4> DEFINE i == seller[s].id
                 new == Resubmitted(requests[i], seller[s], i)
      <4>3. i \in DOMAIN requests => new \in Requests
        BY <4>1
      <4>4. requests' = [requests EXCEPT ![i] = new]
        BY <4>2
      <4> HIDE DEF i, new
      <4> QED
        BY <4>3, <4>4, Updating
    <3> QED
      BY <3>1, <3>2
  <2> QED
    BY <1>0, <1>2, <2>1 DEF Raise, Finish
<1>3. \A i : Withdrawn(i) \in Seq(Requests)
  <2> SUFFICES ASSUME NEW i, i # 0 PROVE [requests EXCEPT ![i].status = "WITHDRAWN"] \in Seq(Requests)
    BY DEF Withdrawn
  <2> DEFINE new == [requests[i] EXCEPT !.status = "WITHDRAWN"]
  <2>1. i \in DOMAIN requests => new \in Requests
    <3>1. i \in DOMAIN requests => requests[i] \in Requests
      OBVIOUS
    <3> QED
      BY <3>1 DEF Requests
  <2>2. [requests EXCEPT ![i].status = "WITHDRAWN"] = [requests EXCEPT ![i] = new]
    OBVIOUS
  <2> HIDE DEF new
  <2> QED
    BY <2>1, <2>2, Updating
<1>4. CASE Withdraw(s)
  BY <1>0, <1>3, <1>4 DEF Withdraw, Finish
<1>5. CASE Record(s)
  <2>1. press' \in PressState /\ press'.step = press.step /\ press'.price = press.price
        /\ press'.retrying = press.retrying /\ press'.was = press.was
    <3>1. seller[s].price \in Nat
      BY DEF SellerState
    <3>2. press' = press \/ press' = [press EXCEPT !.judged = seller[s].price]
      BY <1>5 DEF Record
    <3> QED
      BY <3>1, <3>2 DEF PressState
  <2>2. outcome' \in [status : Outcomes, doc : Nat]
    BY <1>5 DEF Record, Outcomes
  <2> QED
    BY <1>0, <1>3, <1>5, <2>1, <2>2 DEF Record, Finish
<1>6. CASE GiveUp(s)
  BY <1>0, <1>6 DEF GiveUp, Finish
<1> QED
  BY <1>1, <1>2, <1>4, <1>5, <1>6 DEF SellerStep

\* Those who decide keep the types.
LEMMA TypedApprover ==
  ASSUME Typed, NEW a \in Approvers, ApproverStep(a), UNCHANGED given
  PROVE  Typed'
<1> USE DEF Typed, TypeOK, PricesInv
<1>0. NoHand \in ApproverState
  BY DEF NoHand, ApproverState
<1>1. ASSUME NEW i \in OpenRequests, Show(a, i) PROVE Typed'
  <2>1. i \in Nat /\ requests[i].price \in Nat
    <3>1. i \in 1..Len(requests) /\ requests[i] \in Requests
      BY DEF OpenRequests
    <3> QED
      BY <3>1 DEF Requests, Prices
  <2>2. [id |-> i, shown |-> requests[i].price, loaded |-> "none"] \in ApproverState
    BY <2>1 DEF ApproverState
  <2> QED
    BY <1>1, <2>2 DEF Show
<1>2. CASE Load(a)
  <2>1. requests[approver[a].id].status \in Open
    BY <1>2 DEF Load, OpenRequests
  <2>2. [approver[a] EXCEPT !.loaded = requests[approver[a].id].status] \in ApproverState
    BY <2>1 DEF ApproverState
  <2> QED
    BY <1>2, <2>2 DEF Load
<1>3. CASE PutDown(a)
  BY <1>0, <1>3 DEF PutDown
<1>4. ASSUME NEW v \in Verdicts, Decide(a, v) PROVE Typed'
  <2> DEFINE i == approver[a].id
             new == Decided(requests[i], approver[a], v)
  <2>1. i \in DOMAIN requests => new \in Requests
    <3>1. i \in DOMAIN requests => requests[i] \in Requests
      OBVIOUS
    <3>2. approver[a].shown \in Nat
      BY DEF ApproverState
    <3> QED
      BY <3>1, <3>2 DEF Decided, Requests, Lowest
  <2>2. requests' = [requests EXCEPT ![i] = new]
    BY <1>4 DEF Decide
  <2>3. requests' \in Seq(Requests)
    <3> HIDE DEF i, new
    <3> QED
      BY <2>1, <2>2, Updating
  <2> QED
    BY <1>0, <1>4, <2>3 DEF Decide
<1> QED
  BY <1>1, <1>2, <1>3, <1>4 DEF ApproverStep

\* The press that is put away, and the one that goes on.
LEMMA TypedPress ==
  ASSUME Typed, PressStep, UNCHANGED given
  PROVE  Typed'
<1> USE DEF Typed, TypeOK, PricesInv, people
<1>0. NoPress \in PressState /\ NoPress.step = "idle" /\ ~NoPress.retrying
  BY DEF NoPress, PressState, Steps, Outcomes
<1> DEFINE Kept == /\ press' \in PressState
                   /\ press'.step # "idle" => press'.price \in Prices
                   /\ press'.retrying => press'.was \in Prices
<1>1. NoPress = press' => Kept
  BY <1>0
<1>2. \A i \in DOMAIN rows : i \in Nat /\ rows[i] \in Rows
  OBVIOUS
<1>3. rows # <<>> => Newest \in Rows
  BY DEF Newest
<1>4. ASSUME NEW manual \in BOOLEAN, Plan(manual) PROVE Typed'
  <2>1. NextRevision \in Nat /\ Retrying \in BOOLEAN
    BY <1>3 DEF NextRevision, Retrying, Rows
  <2>2. price \in Nat /\ (Retrying => Newest.price \in Prices /\ Newest.price \in Nat)
    BY <1>3 DEF Retrying, Rows, Prices
  <2>3. Kept
    <3>1. "assessed" \in Steps /\ (IF Retrying THEN Newest.price ELSE 0) \in Nat
      BY <2>2 DEF Steps
    <3>2. press' \in PressState
      BY <1>0, <1>4, <2>1, <2>2, <3>1 DEF Plan, PressState
    <3>3. press'.price = price /\ press'.retrying = Retrying
          /\ press'.was = IF Retrying THEN Newest.price ELSE 0
      BY <1>4 DEF Plan, NoPress
    <3> QED
      BY <2>2, <3>2, <3>3
  <2> QED
    BY <1>4, <2>3 DEF Plan
<1>5. CASE Judge
  <2>1. Kept
    <3>1. CASE press' = NoPress
      BY <1>1, <3>1
    <3>2. CASE press' = [press EXCEPT !.step = "cleared", !.by = Len(requests)]
      <4>1. Len(requests) \in Nat /\ "cleared" \in Steps
        BY DEF Steps
      <4>2. press.step # "idle"
        BY <1>5 DEF Judge
      <4>3. press' \in PressState
        BY <3>2, <4>1 DEF PressState
      <4> QED
        BY <3>2, <4>2, <4>3 DEF PressState
    <3> QED
      BY <1>5, <3>1, <3>2 DEF Judge
  <2> QED
    BY <1>5, <2>1 DEF Judge
<1>6. ASSUME NEW i \in Nat, NEW how \in {"created", "found", "settled"}, Landed(i, how),
             press.step # "idle"
      PROVE  Kept
  <2>1. "landed" \in Steps /\ how \in {"none", "created", "found", "settled"}
    BY DEF Steps
  <2>2. press' \in PressState
    BY <1>6, <2>1 DEF Landed, PressState
  <2> QED
    BY <1>6, <2>2 DEF Landed, PressState
<1>7. CASE PreFlight
  <2>1. Found(press.rev) \subseteq Nat
    BY DEF Found
  <2>2. Kept
    BY <1>6, <1>7, <2>1 DEF PreFlight, PressState, Steps
  <2> QED
    BY <1>7, <2>2 DEF PreFlight
<1>8. CASE Refused
  BY <1>1, <1>8 DEF Refused
<1>9. press.step # "idle" => Written \in Seq(Documents)
  <2>1. press.step # "idle" => [rev |-> press.rev, price |-> press.price, noted |-> FALSE] \in Documents
    BY DEF PressState, Documents
  <2> QED
    BY <2>1, Appending DEF Written
<1>10. CASE Post
  <2>1. Kept
    BY <1>6, <1>9, <1>10 DEF Post
  <2> QED
    BY <1>9, <1>10, <2>1 DEF Post
<1>11. CASE PostLost
  <2>1. Kept
    BY <1>11 DEF PostLost, PressState, Steps
  <2> QED
    BY <1>9, <1>11, <2>1 DEF PostLost, Fault
<1>12. CASE SettleFound
  <2>1. Found(press.rev) \subseteq Nat
    BY DEF Found
  <2>2. Kept
    BY <1>6, <1>12, <2>1 DEF SettleFound
  <2> QED
    BY <1>12, <2>2 DEF SettleFound
<1>13. CASE SettleNone
  BY <1>1, <1>13 DEF SettleNone
<1>14. ASSUME NEW c \in Prices, NEW d \in Nat, NEW ch \in {"ERP", "MANUAL"},
              NEW st \in {"WRITTEN", "UNVERIFIED"}, rows' = Append(rows, Row(c, d, ch, st))
       PROVE  rows' \in Seq(Rows)
  <2>1. Row(c, d, ch, st) \in Rows
    BY DEF Row, Rows, PressState
  <2> QED
    BY <1>14, <2>1, Appending
<1>15. CASE SettleFails
  <2>1. rows' \in Seq(Rows)
    BY <1>14, <1>15 DEF SettleFails
  <2>2. books' \in Seq(Documents)
    <3>1. books' = [i \in 1..Len(books) |->
                     [books[i] EXCEPT !.noted = @ \/ books[i].rev = press.rev]]
      BY <1>15 DEF SettleFails
    <3>2. ASSUME NEW i \in 1..Len(books)
          PROVE  [books[i] EXCEPT !.noted = @ \/ books[i].rev = press.rev] \in Documents
      <4>1. books[i] \in Documents
        OBVIOUS
      <4> QED
        BY <4>1 DEF Documents
    <3>3. books' \in [1..Len(books) -> Documents] /\ Len(books) \in Nat
      <4> HIDE DEF Typed, TypeOK
      <4>1. Len(books) \in Nat
        BY DEF Typed, TypeOK
      <4> QED
        BY <3>1, <3>2, <4>1
    <3> QED
      BY <3>3, Tabulated
  <2> QED
    BY <1>1, <1>15, <2>1, <2>2 DEF SettleFails, Fault
<1>16. LatestWritten \in Nat
  <2>1. WrittenRows \in SUBSET (1..Len(rows)) /\ Len(rows) \in Nat
    BY DEF WrittenRows
  <2>2. CASE WrittenRows = {}
    BY <2>2 DEF LatestWritten
  <2>3. CASE WrittenRows # {}
    <3>1. \E k \in WrittenRows : \A l \in WrittenRows : l <= k
      BY <2>1, <2>3, GreatestExists
    <3>2. PICK k \in WrittenRows : LatestWritten = rows[k].doc
      BY <2>3, <3>1 DEF LatestWritten
    <3> QED
      BY <1>2, <2>1, <3>2 DEF Rows
  <2> QED
    BY <2>2, <2>3
<1>17. CASE RecordDocument \/ RecordFails
  <2>1. press.step = "landed" /\ press'.step = "recorded" /\ Kept
    <3>1. "recorded" \in Steps /\ (IF press.rev > 1 THEN Previous ELSE 0) \in Nat
      BY <1>16 DEF Steps, Previous
    <3>2. press.step = "landed" /\ press' = [press EXCEPT !.step = "recorded",
             !.prev = IF press.rev > 1 THEN Previous ELSE 0]
      BY <1>17 DEF RecordDocument, RecordFails
    <3> DEFINE last == IF press.rev > 1 THEN Previous ELSE 0
    <3> HIDE DEF last
    <3>3. press' \in PressState
      BY <3>1, <3>2 DEF PressState, last
    <3> QED
      BY <3>2, <3>3 DEF PressState
  <2>2. SentContent \in Prices /\ press.doc \in Nat
    BY <2>1 DEF SentContent, PressState
  <2>3. rows' \in Seq(Rows)
    BY <1>14, <1>17, <2>2 DEF RecordDocument, RecordFails
  <2> QED
    BY <1>17, <2>1, <2>3 DEF RecordDocument, RecordFails, Fault
<1>18. CASE RecordMark
  <2>1. Kept
    BY <1>18 DEF RecordMark, PressState, Steps
  <2>2. rows' \in Seq(Rows)
    BY <1>14, <1>18 DEF RecordMark
  <2> QED
    BY <1>18, <2>1, <2>2 DEF RecordMark
<1>19. CASE ReadOutcome
  <2>1. Kept
    BY <1>1, <1>19 DEF ReadOutcome, PressState, Steps
  <2> QED
    BY <1>19, <2>1 DEF ReadOutcome
<1>20. CASE WriteOutcome
  <2>1. outcome' \in [status : Outcomes, doc : Nat]
    <3>1. "SENT" \in Outcomes /\ press.doc \in Nat
      BY DEF Outcomes, PressState
    <3> QED
      BY <1>20, <3>1 DEF WriteOutcome
  <2> QED
    BY <1>1, <1>20, <2>1 DEF WriteOutcome
<1>21. CASE OutcomeTaken \/ Crash
  <2>1. press' = NoPress /\ faults' \in Nat /\ cut' \in BOOLEAN
    <3>1. faults' \in Nat /\ press' = NoPress
      BY <1>21 DEF OutcomeTaken, Crash, Fault
    <3>2. CASE OutcomeTaken
      BY <3>1, <3>2 DEF OutcomeTaken
    <3>3. CASE Crash
      <4>1. cut' = (cut \/ press.step \in {"recorded", "noting"})
        BY <3>3 DEF Crash
      <4>2. (cut \/ press.step \in {"recorded", "noting"}) \in BOOLEAN
        OBVIOUS
      <4> QED
        BY <3>1, <4>1, <4>2
    <3> QED
      BY <1>21, <3>2, <3>3
  <2> QED
    BY <1>1, <1>21, <2>1 DEF OutcomeTaken, Crash
<1> QED
  BY <1>4, <1>5, <1>7, <1>8, <1>10, <1>11, <1>12, <1>13, <1>15, <1>17, <1>18, <1>19,
     <1>20, <1>21 DEF PressStep

\* Every step keeps the types.
LEMMA TypedStep ==
  ASSUME Typed, [Next]_vars
  PROVE  Typed'
<1> USE DEF Typed, TypeOK, PricesInv
<1>1. CASE UNCHANGED vars
  BY <1>1 DEF vars
<1>2. ASSUME NEW p \in given.prices, Reprice(p), UNCHANGED given PROVE Typed'
  BY <1>2, Setting DEF Reprice, people
<1>3. ASSUME NEW st \in {"WON", "LOST"}, Answer(st), UNCHANGED given PROVE Typed'
  <2>1. outcome' \in [status : Outcomes, doc : Nat]
    BY <1>3 DEF Answer, Outcomes
  <2> QED
    BY <1>3, <2>1 DEF Answer, people
<1> QED
  BY <1>1, <1>2, <1>3, TypedSeller, TypedApprover, TypedPress DEF Next

\* They hold at the start.
LEMMA TypedInit == Init => Typed
<1> SUFFICES ASSUME Init PROVE Typed
  OBVIOUS
<1>1. price \in Prices
  BY Setting DEF Init
<1>2. <<>> \in Seq(Requests) /\ <<>> \in Seq(Documents) /\ <<>> \in Seq(Rows)
  OBVIOUS
<1>3. seller \in [Sellers -> SellerState] /\ approver \in [Approvers -> ApproverState]
  BY DEF Init, NoJob, NoHand, SellerState, ApproverState
<1>4. press \in PressState /\ press.step = "idle" /\ ~press.retrying
  BY DEF Init, NoPress, PressState, Steps, Outcomes
<1> QED
  BY <1>1, <1>2, <1>3, <1>4 DEF Init, Typed, TypeOK, PricesInv, Outcomes, NoJob

\* So they hold always.
LEMMA AlwaysTyped == Spec => []Typed
  BY TypedInit, TypedStep, PTL DEF Spec

(* Every state is well-typed: the approval requests, what each session has
   read, the press of create_estimate or mark_sent, the documents, the rows of
   quote_documents and the outcome. *)
THEOREM TypeCorrect == Spec => []TypeOK
<1>1. Typed => TypeOK
  BY DEF Typed
<1> QED
  BY <1>1, AlwaysTyped, PTL
-----------------------------------------------------------------------------
(* The source and the rows.                                                 *)

\* What the source holds and what is on file.
StoreInv ==
  /\ OneDocument /\ NothingForgotten /\ RecordIsTrue
  /\ \A i \in DOMAIN books :
       /\ books[i].rev <= NextRevision
       /\ books[i].noted /\ books[i].rev = NextRevision =>
            Retrying /\ Newest.price = books[i].price
  /\ \A k \in DOMAIN rows : rows[k].doc # 0 =>
       rows[k].doc \in DOMAIN books /\ books[rows[k].doc].rev < NextRevision

\* What the press on its way may count on.
SendInv ==
  /\ press.step \in {"assessed", "cleared", "posting", "unsure", "landed"} =>
       /\ press.rev = NextRevision /\ press.retrying = Retrying
       /\ press.retrying => press.was = Newest.price
  /\ press.step = "posting" => Found(press.rev) = {}
  /\ press.step = "unsure" =>
       \A i \in DOMAIN books : books[i].rev = press.rev => books[i].price = press.price
  /\ press.step = "landed" =>
       /\ press.doc \in DOMAIN books /\ books[press.doc].rev = press.rev
       /\ press.how \in {"created", "found", "settled"}
       /\ press.how # "found" => books[press.doc].price = press.price

\* The numbers among documents, rows and press.
LEMMA Counting ==
  ASSUME Typed
  PROVE  /\ NextRevision \in Nat
         /\ Len(books) \in Nat /\ DOMAIN books = 1..Len(books)
         /\ Len(rows) \in Nat /\ DOMAIN rows = 1..Len(rows)
         /\ \A i \in DOMAIN books : books[i] \in Documents
         /\ \A k \in DOMAIN rows : rows[k] \in Rows
         /\ press.rev \in Nat /\ press.doc \in Nat
<1>1. books \in Seq(Documents) /\ rows \in Seq(Rows) /\ press \in PressState
  BY DEF Typed, TypeOK
<1>2. rows # <<>> => Newest \in Rows
  BY <1>1 DEF Newest
<1>3. NextRevision \in Nat
  <2>1. rows # <<>> => Newest.rev \in Nat
    BY <1>2 DEF Rows
  <2> QED
    BY <2>1 DEF NextRevision
<1>4. press.rev \in Nat /\ press.doc \in Nat
  BY <1>1 DEF PressState
<1>5. /\ Len(books) \in Nat /\ DOMAIN books = 1..Len(books)
      /\ \A i \in DOMAIN books : books[i] \in Documents
  BY <1>1
<1>6. /\ Len(rows) \in Nat /\ DOMAIN rows = 1..Len(rows)
      /\ \A k \in DOMAIN rows : rows[k] \in Rows
  BY <1>1
<1> QED
  BY <1>3, <1>4, <1>5, <1>6

\* A row more: it is the newest, and decides what comes next.
LEMMA RowAdded ==
  ASSUME Typed, NEW r \in Rows, rows' = Append(rows, r)
  PROVE  /\ DOMAIN rows' = 1..(Len(rows) + 1) /\ rows'[Len(rows) + 1] = r
         /\ \A k \in DOMAIN rows : k \in DOMAIN rows' /\ rows'[k] = rows[k]
         /\ \A k \in DOMAIN rows' : k \in DOMAIN rows \/ k = Len(rows) + 1
         /\ Newest' = r /\ Retrying' = (r.state = "UNVERIFIED")
         /\ NextRevision' = IF r.state = "UNVERIFIED" THEN r.rev ELSE r.rev + 1
<1>1. rows \in Seq(Rows)
  BY DEF Typed, TypeOK
<1>2. /\ Len(rows) \in Nat /\ DOMAIN rows = 1..Len(rows)
      /\ Len(rows') = Len(rows) + 1 /\ DOMAIN rows' = 1..(Len(rows) + 1)
      /\ \A k \in 1..Len(rows) : rows'[k] = rows[k]
      /\ rows'[Len(rows) + 1] = r
  BY <1>1, Appending
<1>3. rows' # <<>> /\ Newest' = r
  BY <1>2 DEF Newest
<1> QED
  BY <1>2, <1>3 DEF Retrying, NextRevision

\* A document more: the others stay where they were.
LEMMA DocumentAdded ==
  ASSUME Typed, press.step = "posting", books' = Written
  PROVE  /\ DOMAIN books' = 1..(Len(books) + 1) /\ Len(books') = Len(books) + 1
         /\ books'[Len(books) + 1] = [rev |-> press.rev, price |-> press.price, noted |-> FALSE]
         /\ \A i \in DOMAIN books : i \in DOMAIN books' /\ books'[i] = books[i]
         /\ \A i \in DOMAIN books' : i \in DOMAIN books \/ i = Len(books) + 1
<1>1. books \in Seq(Documents)
  BY DEF Typed, TypeOK
<1>2. [rev |-> press.rev, price |-> press.price, noted |-> FALSE] \in Documents
  BY DEF Typed, TypeOK, PricesInv, PressState, Documents
<1> QED
  BY <1>1, <1>2, Appending DEF Written

\* StoreInv is about the source and the rows alone.
LEMMA StoreKept ==
  ASSUME StoreInv, UNCHANGED <<books, rows>>
  PROVE  StoreInv' /\ NextRevision' = NextRevision /\ Retrying' = Retrying /\ Newest' = Newest
<1>1. NextRevision' = NextRevision /\ Retrying' = Retrying /\ Newest' = Newest
  BY DEF NextRevision, Retrying, Newest
<1> QED
  BY <1>1 DEF StoreInv, OneDocument, NothingForgotten, RecordIsTrue

\* Steps that leave the source and the rows alone.
LEMMA SendQuiet ==
  ASSUME Typed, StoreInv, SendInv, UNCHANGED <<books, rows>>,
         \/ UNCHANGED press
         \/ press.step = "assessed" /\ \E p : press' = [press EXCEPT !.judged = p]
         \/ press' = NoPress
  PROVE  StoreInv' /\ SendInv'
<1>1. StoreInv' /\ NextRevision' = NextRevision /\ Retrying' = Retrying /\ Newest' = Newest
  BY StoreKept
<1>2. press \in PressState
  BY DEF Typed, TypeOK
<1>3. CASE UNCHANGED press
  BY <1>1, <1>3 DEF SendInv, Found
<1>4. CASE press.step = "assessed" /\ \E p : press' = [press EXCEPT !.judged = p]
  <2>1. /\ press'.step = "assessed" /\ press'.rev = press.rev
        /\ press'.retrying = press.retrying /\ press'.was = press.was
    BY <1>2, <1>4 DEF PressState
  <2> QED
    BY <1>1, <1>4, <2>1 DEF SendInv
<1>5. CASE press' = NoPress
  <2>1. press'.step = "idle"
    BY <1>5 DEF NoPress
  <2> QED
    BY <1>1, <2>1 DEF SendInv
<1> QED
  BY <1>3, <1>4, <1>5

\* Every step of a press keeps the source, the rows and the press together.
LEMMA SendStep ==
  ASSUME Typed, StoreInv, SendInv, PressStep
  PROVE  StoreInv' /\ SendInv'
<1>1. press \in PressState
  BY DEF Typed, TypeOK
<1>2. ASSUME NEW manual \in BOOLEAN, Plan(manual) PROVE StoreInv' /\ SendInv'
  <2>1. StoreInv' /\ NextRevision' = NextRevision /\ Retrying' = Retrying /\ Newest' = Newest
    BY <1>2, StoreKept DEF Plan
  <2>2. /\ press'.step = "assessed" /\ press'.rev = NextRevision
        /\ press'.retrying = Retrying /\ (Retrying => press'.was = Newest.price)
    BY <1>2 DEF Plan, NoPress
  <2> QED
    BY <2>1, <2>2 DEF SendInv
<1>3. CASE Judge
  <2>1. CASE press' = NoPress
    BY <1>3, <2>1, SendQuiet DEF Judge
  <2>2. CASE press' = [press EXCEPT !.step = "cleared", !.by = Len(requests)]
    <3>1. StoreInv' /\ NextRevision' = NextRevision /\ Retrying' = Retrying /\ Newest' = Newest
      BY <1>3, StoreKept DEF Judge
    <3>2. /\ press'.step = "cleared" /\ press'.rev = press.rev
          /\ press'.retrying = press.retrying /\ press'.was = press.was
      BY <1>1, <2>2 DEF PressState
    <3> QED
      BY <1>3, <3>1, <3>2 DEF SendInv, Judge
  <2> QED
    BY <1>3, <2>1, <2>2 DEF Judge
<1>4. CASE PreFlight
  <2>1. StoreInv' /\ NextRevision' = NextRevision /\ Retrying' = Retrying /\ Newest' = Newest
    BY <1>4, StoreKept DEF PreFlight
  <2>2. CASE \E i \in Found(press.rev) : Landed(i, "found")
    <3>1. PICK i \in Found(press.rev) : Landed(i, "found")
      BY <2>2
    <3>2. /\ press'.step = "landed" /\ press'.rev = press.rev /\ press'.how = "found"
          /\ press'.doc = i /\ press'.retrying = press.retrying /\ press'.was = press.was
      BY <1>1, <3>1 DEF Landed, PressState
    <3> QED
      BY <1>4, <2>1, <3>2 DEF SendInv, PreFlight, Found
  <2>3. CASE Found(press.rev) = {} /\ press' = [press EXCEPT !.step = "posting"]
    <3>1. /\ press'.step = "posting" /\ press'.rev = press.rev
          /\ press'.retrying = press.retrying /\ press'.was = press.was
      BY <1>1, <2>3 DEF PressState
    <3> QED
      BY <1>4, <2>1, <2>3, <3>1 DEF SendInv, PreFlight, Found
  <2> QED
    BY <1>4, <2>2, <2>3 DEF PreFlight
<1>5. CASE Refused \/ SettleNone \/ WriteOutcome \/ OutcomeTaken \/ Crash
  BY <1>5, SendQuiet DEF Refused, SettleNone, WriteOutcome, OutcomeTaken, Crash
<1>6. ASSUME press.step = "posting", rows' = rows, books' = Written
      PROVE  /\ StoreInv' /\ NextRevision' = NextRevision /\ Retrying' = Retrying /\ Newest' = Newest
             /\ \A i \in DOMAIN books : books[i].rev # press.rev
  <2>1. NextRevision' = NextRevision /\ Retrying' = Retrying /\ Newest' = Newest
    BY <1>6 DEF NextRevision, Retrying, Newest
  <2>2. \A i \in DOMAIN books : books[i].rev # press.rev
    BY <1>6 DEF SendInv, Found
  <2>3. press.rev = NextRevision /\ NextRevision \in Nat
    BY <1>6, Counting DEF SendInv
  <2> DEFINE new == Len(books) + 1
  <2>4. /\ \A i \in DOMAIN books : i \in DOMAIN books' /\ books'[i] = books[i]
        /\ \A i \in DOMAIN books' : i \in DOMAIN books \/ i = new
        /\ books'[new].rev = press.rev /\ ~books'[new].noted
    BY <1>6, DocumentAdded
  <2> HIDE DEF new
  <2>5. OneDocument'
    BY <2>2, <2>4 DEF OneDocument, StoreInv
  <2>6. NothingForgotten'
    BY <1>6, <2>1, <2>3, <2>4 DEF NothingForgotten, StoreInv
  <2>7. \A k \in DOMAIN rows : rows[k].doc # 0 =>
          rows[k].doc \in DOMAIN books' /\ books'[rows[k].doc] = books[rows[k].doc]
    BY <2>4 DEF StoreInv
  <2>8. RecordIsTrue'
    BY <1>6, <2>7 DEF RecordIsTrue, StoreInv
  <2> QED
    BY <1>6, <2>1, <2>2, <2>3, <2>4, <2>5, <2>6, <2>7, <2>8 DEF StoreInv
<1>7. CASE Post
  <2>1. /\ press'.step = "landed" /\ press'.rev = press.rev /\ press'.how = "created"
        /\ press'.doc = Len(books') /\ press'.price = press.price
        /\ press'.retrying = press.retrying /\ press'.was = press.was
    BY <1>1, <1>7 DEF Post, Landed, PressState
  <2>2. /\ press'.doc \in DOMAIN books' /\ books'[press'.doc].rev = press.rev
        /\ books'[press'.doc].price = press.price
    BY <1>7, <2>1, DocumentAdded, Counting DEF Post
  <2> QED
    BY <1>6, <1>7, <2>1, <2>2 DEF Post, SendInv
<1>8. CASE PostLost
  <2>1. /\ press'.step = "unsure" /\ press'.rev = press.rev /\ press'.price = press.price
        /\ press'.retrying = press.retrying /\ press'.was = press.was
    BY <1>1, <1>8 DEF PostLost, PressState
  <2>2. CASE books' = books
    <3>1. StoreInv' /\ NextRevision' = NextRevision /\ Retrying' = Retrying /\ Newest' = Newest
      BY <1>8, <2>2, StoreKept DEF PostLost
    <3> QED
      BY <1>8, <2>1, <2>2, <3>1 DEF PostLost, SendInv, Found
  <2>3. CASE books' = Written
    <3>1. \A i \in DOMAIN books' : books'[i].rev = press.rev => books'[i].price = press.price
      BY <1>6, <1>8, <2>3, DocumentAdded DEF PostLost
    <3> QED
      BY <1>6, <1>8, <2>1, <2>3, <3>1 DEF PostLost, SendInv
  <2> QED
    BY <1>8, <2>2, <2>3 DEF PostLost
<1>9. CASE SettleFound
  <2>1. StoreInv' /\ NextRevision' = NextRevision /\ Retrying' = Retrying /\ Newest' = Newest
    BY <1>9, StoreKept DEF SettleFound
  <2>2. PICK i \in Found(press.rev) : Landed(i, "settled")
    BY <1>9 DEF SettleFound
  <2>3. /\ press'.step = "landed" /\ press'.rev = press.rev /\ press'.how = "settled"
        /\ press'.doc = i /\ press'.retrying = press.retrying /\ press'.was = press.was
        /\ press'.price = press.price
    BY <1>1, <2>2 DEF Landed, PressState
  <2> QED
    BY <1>9, <2>1, <2>3 DEF SendInv, SettleFound, Found
<1>10. ASSUME press.step \in {"unsure", "landed", "cleared"}, UNCHANGED books,
              NEW r \in Rows, r.rev = press.rev, r.state = "WRITTEN", rows' = Append(rows, r)
       PROVE  /\ NextRevision' = press.rev + 1 /\ NextRevision' \in Nat
              /\ NextRevision = press.rev /\ press.rev \in Nat
              /\ \A i \in DOMAIN books : books[i].rev < NextRevision'
              /\ \A k \in DOMAIN rows : rows[k].doc # 0 => books[rows[k].doc].rev < NextRevision'
              /\ \A i \in DOMAIN books :
                   \/ books[i].rev = press.rev
                   \/ \E k \in DOMAIN rows : rows[k].doc = i
                   \/ \E k \in DOMAIN rows : rows[k].channel = "MANUAL" /\ rows[k].rev = books[i].rev
  <2>1. NextRevision = press.rev /\ press.rev \in Nat
    BY <1>10, Counting DEF SendInv
  <2>2. NextRevision' = press.rev + 1
    BY <1>10, RowAdded
  <2>3. \A i \in DOMAIN books : books[i].rev <= press.rev /\ books[i].rev \in Nat
    BY <2>1, Counting DEF StoreInv, Documents
  <2>4. \A k \in DOMAIN rows : rows[k].doc # 0 => rows[k].doc \in DOMAIN books
    BY DEF StoreInv
  <2> QED
    BY <2>1, <2>2, <2>3, <2>4 DEF StoreInv, NothingForgotten
<1>11. CASE SettleFails
  <2> DEFINE r == Row(press.price, 0, "ERP", "UNVERIFIED")
  <2>1. r \in Rows /\ r.rev = press.rev /\ r.state = "UNVERIFIED" /\ r.price = press.price /\ r.doc = 0
    <3>1. press.price \in Prices
      BY <1>11 DEF SettleFails, Typed, PricesInv
    <3> QED
      BY <1>1, <3>1 DEF Row, Rows, PressState
  <2>2. rows' = Append(rows, r) /\ press' = NoPress
    BY <1>11 DEF SettleFails
  <2>3. /\ NextRevision = press.rev
        /\ \A i \in DOMAIN books : books[i].rev = press.rev => books[i].price = press.price
    BY <1>11 DEF SettleFails, SendInv
  <2>4. /\ DOMAIN books' = DOMAIN books
        /\ \A i \in DOMAIN books : /\ books'[i].rev = books[i].rev /\ books'[i].price = books[i].price
                                   /\ books[i].rev # press.rev => books'[i].noted = books[i].noted
    <3>1. books' = [i \in DOMAIN books |->
                     [books[i] EXCEPT !.noted = @ \/ books[i].rev = press.rev]]
      BY <1>11 DEF SettleFails
    <3>2. \A i \in DOMAIN books : books[i] \in Documents
      BY Counting
    <3>3. DOMAIN books' = DOMAIN books
      BY <3>1
    <3>4. ASSUME NEW i \in DOMAIN books
          PROVE  /\ books'[i].rev = books[i].rev /\ books'[i].price = books[i].price
                 /\ books[i].rev # press.rev => books'[i].noted = books[i].noted
      <4>1. books'[i] = [books[i] EXCEPT !.noted = @ \/ books[i].rev = press.rev]
        BY <3>1
      <4>2. books[i] \in Documents /\ books[i].noted \in BOOLEAN
        BY <3>2 DEF Documents
      <4>3. books[i].rev # press.rev => (books[i].noted \/ books[i].rev = press.rev) = books[i].noted
        BY <4>2
      <4> QED
        BY <4>1, <4>2, <4>3 DEF Documents
    <3> QED
      BY <3>3, <3>4
  <2> HIDE DEF r
  <2>5. /\ \A k \in DOMAIN rows : k \in DOMAIN rows' /\ rows'[k] = rows[k]
        /\ \A k \in DOMAIN rows' : k \in DOMAIN rows \/ rows'[k] = r
        /\ Newest' = r /\ Retrying' /\ NextRevision' = press.rev
    BY <2>1, <2>2, RowAdded
  <2>6. OneDocument'
    BY <2>4 DEF OneDocument, StoreInv
  <2>7. NothingForgotten'
    BY <2>3, <2>4, <2>5 DEF NothingForgotten, StoreInv
  <2>8. \A k \in DOMAIN rows : rows[k].doc # 0 =>
          rows[k].doc \in DOMAIN books /\ books[rows[k].doc].rev # press.rev
                /\ books[rows[k].doc].rev < press.rev
    <3>1. press.rev \in Nat /\ \A i \in DOMAIN books : books[i].rev \in Nat
      BY Counting DEF Documents
    <3>2. \A k \in DOMAIN rows : rows[k].doc # 0 =>
            rows[k].doc \in DOMAIN books /\ books[rows[k].doc].rev < press.rev
      BY <2>3 DEF StoreInv
    <3> QED
      BY <3>1, <3>2
  <2>9. RecordIsTrue'
    BY <2>1, <2>4, <2>5, <2>8 DEF RecordIsTrue, StoreInv
  <2>10. \A i \in DOMAIN books' :
           /\ books'[i].rev <= NextRevision'
           /\ books'[i].noted /\ books'[i].rev = NextRevision' =>
                Retrying' /\ Newest'.price = books'[i].price
    BY <2>1, <2>3, <2>4, <2>5 DEF StoreInv
  <2>11. \A k \in DOMAIN rows' : rows'[k].doc # 0 =>
           rows'[k].doc \in DOMAIN books' /\ books'[rows'[k].doc].rev < NextRevision'
    BY <2>1, <2>4, <2>5, <2>8
  <2>12. press'.step = "idle"
    BY <2>2 DEF NoPress
  <2> QED
    BY <2>6, <2>7, <2>9, <2>10, <2>11, <2>12 DEF StoreInv, SendInv
<1>12. CASE RecordDocument
  <2> DEFINE r == Row(SentContent, press.doc, "ERP", "WRITTEN")
  <2>1. /\ r \in Rows /\ r.rev = press.rev /\ r.state = "WRITTEN" /\ r.price = SentContent
        /\ r.doc = press.doc /\ r.how = press.how /\ r.retried = press.retrying
    <3>1. SentContent \in Prices
      BY <1>12 DEF RecordDocument, SentContent, Typed, PricesInv
    <3> QED
      BY <1>1, <3>1 DEF Row, Rows, PressState
  <2>2. rows' = Append(rows, r) /\ UNCHANGED books /\ press.step = "landed" /\ press'.step = "recorded"
    BY <1>1, <1>12 DEF RecordDocument, PressState
  <2>3. /\ press.doc \in DOMAIN books /\ books[press.doc].rev = press.rev
        /\ press.rev = NextRevision /\ press.retrying = Retrying
        /\ press.retrying => press.was = Newest.price
        /\ press.how \in {"created", "found", "settled"}
        /\ press.how # "found" => books[press.doc].price = press.price
    BY <2>2 DEF SendInv
  <2>4. \/ SentContent = books[press.doc].price
        \/ press.how = "found" /\ ~books[press.doc].noted
        \/ press.how = "settled" /\ press.retrying
    <3>1. books[press.doc].noted => Retrying /\ Newest.price = books[press.doc].price
      BY <2>3 DEF StoreInv
    <3>2. CASE press.how = "found"
      BY <2>3, <3>1, <3>2 DEF SentContent
    <3>3. CASE press.how # "found"
      BY <2>3, <3>3 DEF SentContent
    <3> QED
      BY <3>2, <3>3
  <2> HIDE DEF r
  <2>5. /\ \A k \in DOMAIN rows : k \in DOMAIN rows' /\ rows'[k] = rows[k]
        /\ \A k \in DOMAIN rows' : k \in DOMAIN rows \/ rows'[k] = r
        /\ \E k \in DOMAIN rows' : rows'[k] = r
    <3>1. Len(rows) \in Nat /\ Len(rows) + 1 \in 1..(Len(rows) + 1)
      BY Counting
    <3> QED
      BY <2>1, <2>2, <3>1, RowAdded
  <2>6. /\ \A i \in DOMAIN books : books[i].rev < NextRevision' /\ NextRevision' = press.rev + 1
        /\ \A k \in DOMAIN rows : rows[k].doc # 0 => books[rows[k].doc].rev < NextRevision'
        /\ NextRevision' \in Nat
        /\ \A i \in DOMAIN books :
             \/ books[i].rev = press.rev
             \/ \E k \in DOMAIN rows : rows[k].doc = i
             \/ \E k \in DOMAIN rows : rows[k].channel = "MANUAL" /\ rows[k].rev = books[i].rev
    BY <1>10, <2>1, <2>2
  <2>7. OneDocument'
    BY <2>2 DEF OneDocument, StoreInv
  <2>8. \A i \in DOMAIN books : books[i].rev = press.rev => i = press.doc
    BY <2>3 DEF OneDocument, StoreInv
  <2>9. NothingForgotten'
    BY <2>1, <2>2, <2>5, <2>6, <2>8 DEF NothingForgotten
  <2>10. RecordIsTrue'
    BY <2>1, <2>2, <2>4, <2>5 DEF RecordIsTrue, StoreInv
  <2>11. \A i \in DOMAIN books' :
           /\ books'[i].rev <= NextRevision' /\ books'[i].rev # NextRevision'
    <3>1. \A i \in DOMAIN books : books[i].rev \in Nat
      BY Counting DEF Documents
    <3> QED
      BY <2>2, <2>6, <3>1
  <2>12. \A k \in DOMAIN rows' : rows'[k].doc # 0 =>
           rows'[k].doc \in DOMAIN books' /\ books'[rows'[k].doc].rev < NextRevision'
    BY <2>1, <2>2, <2>3, <2>5, <2>6 DEF StoreInv
  <2> QED
    BY <2>2, <2>7, <2>9, <2>10, <2>11, <2>12 DEF StoreInv, SendInv
<1>13. CASE RecordMark
  <2> DEFINE r == Row(press.price, 0, "MANUAL", "WRITTEN")
  <2>1. r \in Rows /\ r.rev = press.rev /\ r.state = "WRITTEN" /\ r.doc = 0 /\ r.channel = "MANUAL"
    <3>1. press.price \in Prices
      BY <1>13 DEF RecordMark, Typed, PricesInv
    <3> QED
      BY <1>1, <3>1 DEF Row, Rows, PressState
  <2>2. rows' = Append(rows, r) /\ UNCHANGED books /\ press.step = "cleared" /\ press'.step = "recorded"
    BY <1>1, <1>13 DEF RecordMark, PressState
  <2> HIDE DEF r
  <2>5. /\ \A k \in DOMAIN rows : k \in DOMAIN rows' /\ rows'[k] = rows[k]
        /\ \A k \in DOMAIN rows' : k \in DOMAIN rows \/ rows'[k] = r
        /\ \E k \in DOMAIN rows' : rows'[k] = r
    <3>1. Len(rows) \in Nat /\ Len(rows) + 1 \in 1..(Len(rows) + 1)
      BY Counting
    <3> QED
      BY <2>1, <2>2, <3>1, RowAdded
  <2>6. /\ \A i \in DOMAIN books : books[i].rev < NextRevision'
        /\ \A k \in DOMAIN rows : rows[k].doc # 0 => books[rows[k].doc].rev < NextRevision'
        /\ NextRevision' \in Nat
        /\ \A i \in DOMAIN books :
             \/ books[i].rev = press.rev
             \/ \E k \in DOMAIN rows : rows[k].doc = i
             \/ \E k \in DOMAIN rows : rows[k].channel = "MANUAL" /\ rows[k].rev = books[i].rev
    BY <1>10, <2>1, <2>2
  <2>7. OneDocument'
    BY <2>2 DEF OneDocument, StoreInv
  <2>9. NothingForgotten'
    BY <2>1, <2>2, <2>5, <2>6 DEF NothingForgotten
  <2>10. RecordIsTrue'
    BY <2>1, <2>2, <2>5 DEF RecordIsTrue, StoreInv
  <2>11. \A i \in DOMAIN books' :
           /\ books'[i].rev <= NextRevision' /\ books'[i].rev # NextRevision'
    <3>1. \A i \in DOMAIN books : books[i].rev \in Nat
      BY Counting DEF Documents
    <3> QED
      BY <2>2, <2>6, <3>1
  <2>12. \A k \in DOMAIN rows' : rows'[k].doc # 0 =>
           rows'[k].doc \in DOMAIN books' /\ books'[rows'[k].doc].rev < NextRevision'
    BY <2>1, <2>2, <2>5, <2>6 DEF StoreInv
  <2> QED
    BY <2>2, <2>7, <2>9, <2>10, <2>11, <2>12 DEF StoreInv, SendInv
<1>14. CASE RecordFails \/ ReadOutcome
  <2>1. StoreInv' /\ UNCHANGED <<books, rows>>
    BY <1>14, StoreKept DEF RecordFails, ReadOutcome
  <2>2. press'.step \in {"idle", "recorded", "noting"}
    <3>1. CASE RecordFails
      <4> DEFINE last == IF press.rev > 1 THEN Previous ELSE 0
      <4>1. press' = [press EXCEPT !.step = "recorded", !.prev = last]
        BY <3>1 DEF RecordFails
      <4> HIDE DEF last
      <4> QED
        BY <1>1, <4>1 DEF PressState
    <3>2. CASE ReadOutcome
      BY <1>1, <3>2 DEF ReadOutcome, NoPress, PressState
    <3> QED
      BY <1>14, <3>1, <3>2
  <2> QED
    BY <2>1, <2>2 DEF SendInv
<1> QED
  BY <1>2, <1>3, <1>4, <1>5, <1>7, <1>8, <1>9, <1>11, <1>12, <1>13, <1>14 DEF PressStep

\* So does every step.
LEMMA StoreStep ==
  ASSUME Typed, StoreInv, SendInv, [Next]_vars
  PROVE  StoreInv' /\ SendInv'
<1>1. ASSUME NEW s \in Sellers, SellerStep(s) PROVE StoreInv' /\ SendInv'
  BY <1>1, SendQuiet DEF SellerStep, Look, Raise, Withdraw, Record, GiveUp
<1>2. ASSUME NEW a \in Approvers, ApproverStep(a) PROVE StoreInv' /\ SendInv'
  BY <1>2, SendQuiet DEF ApproverStep, Show, Load, PutDown, Decide
<1>3. CASE \/ \E p \in given.prices : Reprice(p)
           \/ \E status \in {"WON", "LOST"} : Answer(status)
           \/ UNCHANGED vars
  BY <1>3, SendQuiet DEF Reprice, Answer, vars
<1> QED
  BY <1>1, <1>2, <1>3, SendStep DEF Next

\* They agree at the start.
LEMMA StoreInit == Init => StoreInv /\ SendInv
BY DEF Init, StoreInv, SendInv, OneDocument, NothingForgotten, RecordIsTrue, NoPress

\* So they agree always.
LEMMA AlwaysStored == Spec => [](Typed /\ StoreInv /\ SendInv)
BY TypedInit, TypedStep, StoreInit, StoreStep, PTL DEF Spec

(* create_sales_quotes never leaves two documents under one reference, however
   often a send is retried, refused, settled by read or cut off.  The reference
   of the press is the next one the rows give, and a document is posted only
   when none is found under it. *)
THEOREM OneDocumentHolds == Spec => []OneDocument
<1>1. StoreInv => OneDocument
  BY DEF StoreInv
<1> QED
  BY <1>1, AlwaysStored, PTL

(* A document in the source is named by a row, or is under the reference the
   next send asks for, or a mark by hand took its reference: _revision_plan
   moves on to another reference only in the step that files the document under
   the one before. *)
THEOREM NothingForgottenHolds == Spec => []NothingForgotten
<1>1. StoreInv => NothingForgotten
  BY DEF StoreInv
<1> QED
  BY <1>1, AlwaysStored, PTL

(* A row says what its document says, but for a document found again that had
   left no row and a retry that lost its own answer: record_document takes the
   content of the unverified row, which is the document's. *)
THEOREM RecordIsTrueHolds == Spec => []RecordIsTrue
<1>1. StoreInv => RecordIsTrue
  BY DEF StoreInv
<1> QED
  BY <1>1, AlwaysStored, PTL
-----------------------------------------------------------------------------
(* The approval.                                                            *)

\* An approval is of a price somebody had been shown, unless it moved.
Shown(r) == r.status = "APPROVED" => r.moved \/ (r.shown # 0 /\ r.shown <= r.price)

\* What an approver holds is what it was shown, unless the request moved.
HandInv(a) ==
  /\ approver[a].loaded # "none" => approver[a].id # 0
  /\ approver[a].id # 0 =>
       /\ approver[a].id \in DOMAIN requests /\ approver[a].shown \in Prices
       /\ \/ requests[approver[a].id].moved
          \/ requests[approver[a].id].price = approver[a].shown

\* The approvals, the hands, and the press past its gate.
ApprovalInv ==
  /\ \A i \in DOMAIN requests : Shown(requests[i])
  /\ \A a \in Approvers : HandInv(a)
  /\ press.by # 0 => press.by \in DOMAIN requests
  /\ SentAsShown

\* What a request keeps in a step: an approval's standing, and the price a
\* hand that holds it was shown.
Carried(i) ==
  /\ i \in DOMAIN requests'
  /\ requests[i].moved => requests'[i].moved
  /\ requests[i].shown # 0 => requests'[i].shown # 0 /\ requests'[i].shown <= requests[i].shown
  /\ Shown(requests'[i])
  /\ \/ requests'[i].moved \/ requests'[i].price = requests[i].price
     \/ \A a \in Approvers : approver[a].id # i

\* The numbers among requests and press.
LEMMA RequestTypes ==
  ASSUME Typed
  PROVE  /\ \A i \in DOMAIN requests : i \in Nat \ {0} /\ requests[i] \in Requests
                /\ requests[i].shown \in Nat /\ requests[i].price \in Nat
         /\ DOMAIN requests = 1..Len(requests) /\ Len(requests) \in Nat
         /\ press.price \in Nat /\ press.by \in Nat /\ press.judged \in Nat
<1>1. requests \in Seq(Requests) /\ press \in PressState
  BY DEF Typed, TypeOK
<1>2. \A i \in DOMAIN requests : i \in Nat \ {0} /\ requests[i] \in Requests
  BY <1>1
<1>3. \A r \in Requests : r.shown \in Nat /\ r.price \in Nat
  BY DEF Requests, Prices
<1> QED
  BY <1>1, <1>2, <1>3 DEF PressState

\* Requests carried on, no new hand on one, no gate passed: ApprovalInv stays.
LEMMA Onward ==
  ASSUME Typed, Typed', ApprovalInv, UNCHANGED given,
         \A i \in DOMAIN requests : Carried(i),
         \A i \in DOMAIN requests' : i \in DOMAIN requests \/ Shown(requests'[i]),
         \A a \in Approvers : approver'[a] = approver[a] \/ approver'[a] = NoHand,
         \/ UNCHANGED press
         \/ press.step = "assessed" /\ \E p : press' = [press EXCEPT !.judged = p]
  PROVE  ApprovalInv'
<1>1. \A i \in DOMAIN requests' : Shown(requests'[i])
  BY DEF Carried
<1>2. ASSUME NEW a \in Approvers PROVE HandInv(a)'
  <2>1. CASE approver'[a] = NoHand
    BY <2>1 DEF HandInv, NoHand
  <2>2. CASE approver'[a] = approver[a]
    <3>1. HandInv(a)
      BY DEF ApprovalInv
    <3> QED
      BY <2>2, <3>1 DEF HandInv, Carried
  <2> QED
    BY <2>1, <2>2
<1>3. press'.by = press.by /\ press'.step = press.step /\ press'.price = press.price
      /\ (press.step = "assessed" \/ press'.judged = press.judged)
  <2>1. press \in PressState
    BY DEF Typed, TypeOK
  <2> QED
    BY <2>1 DEF PressState
<1>4. press'.by # 0 => press'.by \in DOMAIN requests'
  BY <1>3 DEF ApprovalInv, Carried
<1>5. SentAsShown'
  <2>1. CASE press.by = 0 \/ press.step \in {"idle", "assessed"}
    BY <1>3, <2>1 DEF ApprovalInv, SentAsShown
  <2>2. CASE press.by # 0 /\ press.step \notin {"idle", "assessed"}
    <3>1. press.by \in DOMAIN requests /\ press.by \in DOMAIN requests'
      BY <2>2 DEF ApprovalInv, Carried
    <3>2. /\ requests[press.by].shown \in Nat /\ requests'[press.by].shown \in Nat
          /\ press.price \in Nat
      <4>1. requests[press.by].shown \in Nat /\ press.price \in Nat
        BY <3>1, RequestTypes
      <4>2. requests'[press.by].shown \in Nat
        <5>1. requests' \in Seq(Requests)
          BY DEF Typed, TypeOK
        <5>2. requests'[press.by] \in Requests
          BY <3>1, <5>1
        <5> QED
          BY <5>2 DEF Requests
      <4> QED
        BY <4>1, <4>2
    <3>3. Carried(press.by) /\ SentAsShown
      BY <3>1 DEF ApprovalInv
    <3> QED
      BY <1>3, <2>2, <3>2, <3>3 DEF SentAsShown, Carried
  <2> QED
    BY <2>1, <2>2
<1> QED
  BY <1>1, <1>2, <1>4, <1>5 DEF ApprovalInv

\* One request is rewritten, or none.
LEMMA OneRewritten ==
  ASSUME Typed, ApprovalInv, NEW i, NEW r,
         requests' = [requests EXCEPT ![i] = r],
         i \in DOMAIN requests =>
           /\ requests[i].moved => r.moved
           /\ requests[i].shown # 0 => r.shown # 0 /\ r.shown <= requests[i].shown
           /\ Shown(r)
           /\ r.moved \/ r.price = requests[i].price \/ \A a \in Approvers : approver[a].id # i
  PROVE  /\ \A j \in DOMAIN requests : Carried(j)
         /\ \A j \in DOMAIN requests' : j \in DOMAIN requests
<1>1. DOMAIN requests' = DOMAIN requests
      /\ \A j \in DOMAIN requests : requests'[j] = IF j = i THEN r ELSE requests[j]
  BY DEF Typed, TypeOK
<1>2. \A j \in DOMAIN requests : requests[j].shown \in Nat /\ Shown(requests[j])
  BY RequestTypes DEF ApprovalInv
<1>3. ASSUME NEW j \in DOMAIN requests PROVE Carried(j)
  <2>1. CASE j = i
    BY <1>1, <2>1 DEF Carried
  <2>2. CASE j # i
    BY <1>1, <1>2, <2>2 DEF Carried
  <2> QED
    BY <2>1, <2>2
<1> QED
  BY <1>1, <1>3

\* A request left alone is carried.
LEMMA AllKept ==
  ASSUME Typed, ApprovalInv, requests' = requests
  PROVE  /\ \A j \in DOMAIN requests : Carried(j)
         /\ \A j \in DOMAIN requests' : j \in DOMAIN requests
<1>1. \A j \in DOMAIN requests : requests[j].shown \in Nat /\ Shown(requests[j])
  BY RequestTypes DEF ApprovalInv
<1> QED
  BY <1>1 DEF Carried

\* The desk: a subject replaced under somebody's eyes is moved.
LEMMA ApprovalSeller ==
  ASSUME Typed, Typed', ApprovalInv, NEW s \in Sellers, SellerStep(s), UNCHANGED given
  PROVE  ApprovalInv'
<1>1. \A a \in Approvers : approver' = approver => approver'[a] = approver[a]
  OBVIOUS
<1>2. ASSUME NEW job \in {"raise", "withdraw", "record"}, NEW p \in given.prices, Look(s, job, p)
      PROVE  ApprovalInv'
  BY <1>1, <1>2, AllKept, Onward DEF Look
<1>3. CASE GiveUp(s)
  BY <1>1, <1>3, AllKept, Onward DEF GiveUp
<1>4. CASE Raise(s)
  <2>1. CASE seller[s].id = 0
    <3> DEFINE r == [status |-> "PENDING", price |-> seller[s].price, shown |-> 0, moved |-> FALSE]
    <3>1. requests' = Append(requests, r)
      BY <1>4, <2>1 DEF Raise
    <3>2. r \in Requests /\ Shown(r)
      BY <1>4 DEF Raise, Requests, Open, Shown, Typed, PricesInv
    <3> HIDE DEF r
    <3>3. requests \in Seq(Requests)
      BY DEF Typed, TypeOK
    <3>4. /\ DOMAIN requests = 1..Len(requests) /\ Len(requests) \in Nat
          /\ DOMAIN requests' = 1..(Len(requests) + 1)
          /\ \A i \in 1..Len(requests) : requests'[i] = requests[i]
          /\ requests'[Len(requests) + 1] = r
      BY <3>1, <3>2, <3>3, Appending
    <3>5. \A i \in DOMAIN requests : requests[i].shown \in Nat /\ Shown(requests[i])
      BY RequestTypes DEF ApprovalInv
    <3>6. \A i \in DOMAIN requests : Carried(i)
      BY <3>4, <3>5 DEF Carried
    <3>7. \A i \in DOMAIN requests' : i \in DOMAIN requests \/ Shown(requests'[i])
      BY <3>2, <3>4
    <3> QED
      BY <1>1, <1>4, <3>6, <3>7, Onward DEF Raise
  <2>2. CASE seller[s].id # 0
    <3> DEFINE i == seller[s].id
               r == Resubmitted(requests[i], seller[s], i)
    <3>1. requests' = [requests EXCEPT ![i] = r]
      BY <1>4, <2>2 DEF Raise
    <3>2. ASSUME i \in DOMAIN requests
          PROVE  /\ requests[i].moved => r.moved
                 /\ requests[i].shown # 0 => r.shown # 0 /\ r.shown <= requests[i].shown
                 /\ Shown(r)
                 /\ r.moved \/ r.price = requests[i].price \/ \A a \in Approvers : approver[a].id # i
      <4>1. requests[i] \in Requests /\ requests[i].shown \in Nat /\ Shown(requests[i])
        BY <3>2, RequestTypes DEF ApprovalInv
      <4>2. /\ r.price = IF seller[s].price = seller[s].was THEN requests[i].price ELSE seller[s].price
            /\ r.status = IF seller[s].status = "PENDING" THEN requests[i].status ELSE "PENDING"
            /\ requests[i].moved \/ (seller[s].price # seller[s].was /\ UnderEyes(i)) => r.moved
            /\ r.shown = requests[i].shown
        BY <4>1 DEF Resubmitted, Requests
      <4>3. UnderEyes(i) \/ (requests[i].status \in Open /\ \A a \in Approvers : approver[a].id # i)
        BY DEF UnderEyes
      <4> HIDE DEF r, i
      <4>4. Shown(r)
        BY <4>1, <4>2, <4>3 DEF Shown, Open
      <4> QED
        BY <4>1, <4>2, <4>3, <4>4
    <3> HIDE DEF r, i
    <3>3. /\ \A j \in DOMAIN requests : Carried(j)
          /\ \A j \in DOMAIN requests' : j \in DOMAIN requests
      BY <3>1, <3>2, OneRewritten
    <3> QED
      BY <1>1, <1>4, <3>3, Onward DEF Raise
  <2> QED
    BY <2>1, <2>2
<1>5. ASSUME NEW i, requests' = Withdrawn(i)
      PROVE  /\ \A j \in DOMAIN requests : Carried(j)
             /\ \A j \in DOMAIN requests' : j \in DOMAIN requests
  <2>1. CASE i = 0
    BY <1>5, <2>1, AllKept DEF Withdrawn
  <2>2. CASE i # 0
    <3> DEFINE r == [requests[i] EXCEPT !.status = "WITHDRAWN"]
    <3>1. requests' = [requests EXCEPT ![i] = r]
      BY <1>5, <2>2 DEF Withdrawn
    <3>2. ASSUME i \in DOMAIN requests
          PROVE  /\ r.moved = requests[i].moved /\ r.shown = requests[i].shown
                 /\ r.price = requests[i].price /\ Shown(r) /\ r.shown <= requests[i].shown
      BY <3>2, RequestTypes DEF Shown, Requests
    <3> HIDE DEF r
    <3> QED
      BY <3>1, <3>2, OneRewritten
  <2> QED
    BY <2>1, <2>2
<1>6. CASE Withdraw(s)
  BY <1>1, <1>5, <1>6, Onward DEF Withdraw
<1>7. CASE Record(s)
  BY <1>1, <1>5, <1>7, Onward DEF Record
<1> QED
  BY <1>2, <1>3, <1>4, <1>6, <1>7 DEF SellerStep

\* Those who decide: a hand holds the price it was shown, or the request moved.
LEMMA ApprovalApprover ==
  ASSUME Typed, Typed', ApprovalInv, NEW a \in Approvers, ApproverStep(a), UNCHANGED given
  PROVE  ApprovalInv'
<1>0. approver \in [Approvers -> ApproverState] /\ HandInv(a)
  BY DEF Typed, TypeOK, ApprovalInv
<1>1. ASSUME UNCHANGED <<requests, press>>, \A b \in Approvers : HandInv(b)'
      PROVE  ApprovalInv'
  BY <1>1 DEF ApprovalInv, SentAsShown, Shown
<1>2. ASSUME NEW new, approver' = [approver EXCEPT ![a] = new], UNCHANGED <<requests, press>>,
             /\ new.loaded # "none" => new.id # 0
             /\ new.id # 0 =>
                  /\ new.id \in DOMAIN requests /\ new.shown \in Prices
                  /\ requests[new.id].moved \/ requests[new.id].price = new.shown
      PROVE  ApprovalInv'
  <2>1. ASSUME NEW b \in Approvers PROVE HandInv(b)'
    <3>1. HandInv(b)
      BY DEF ApprovalInv
    <3>2. CASE b = a
      BY <1>0, <1>2, <3>2 DEF HandInv
    <3>3. CASE b # a
      <4>1. approver'[b] = approver[b]
        BY <1>0, <1>2, <3>3
      <4> QED
        BY <1>2, <3>1, <4>1 DEF HandInv
    <3> QED
      BY <3>2, <3>3
  <2> QED
    BY <1>1, <1>2, <2>1
<1>3. ASSUME NEW i \in OpenRequests, Show(a, i) PROVE ApprovalInv'
  <2> DEFINE new == [id |-> i, shown |-> requests[i].price, loaded |-> "none"]
  <2>1. i \in DOMAIN requests /\ requests[i].price \in Prices
    <3>1. i \in DOMAIN requests
      BY DEF OpenRequests
    <3>2. requests[i] \in Requests
      BY <3>1, RequestTypes
    <3> QED
      BY <3>1, <3>2 DEF Requests
  <2>2. new.id = i /\ new.loaded = "none" /\ new.shown = requests[i].price
    OBVIOUS
  <2>3. approver' = [approver EXCEPT ![a] = new] /\ UNCHANGED <<requests, press>>
    BY <1>3 DEF Show
  <2> HIDE DEF new
  <2> QED
    BY <1>2, <2>1, <2>2, <2>3
<1>4. CASE Load(a)
  <2> DEFINE new == [approver[a] EXCEPT !.loaded = requests[approver[a].id].status]
  <2>1. new.id = approver[a].id /\ new.shown = approver[a].shown
    BY <1>0 DEF ApproverState
  <2>2. approver[a].id # 0
    <3>1. approver[a].id \in DOMAIN requests
      BY <1>4 DEF Load, OpenRequests
    <3> QED
      BY <3>1, RequestTypes
  <2>3. approver' = [approver EXCEPT ![a] = new] /\ UNCHANGED <<requests, press>>
    BY <1>4 DEF Load
  <2> HIDE DEF new
  <2> QED
    BY <1>0, <1>2, <2>1, <2>2, <2>3 DEF HandInv
<1>5. CASE PutDown(a)
  BY <1>2, <1>5 DEF PutDown, NoHand
<1>6. ASSUME NEW v \in Verdicts, Decide(a, v) PROVE ApprovalInv'
  <2> DEFINE i == approver[a].id
             r == Decided(requests[i], approver[a], v)
  <2>1. requests' = [requests EXCEPT ![i] = r]
    BY <1>6 DEF Decide
  <2>2. /\ requests[i] \in Requests /\ requests[i].shown \in Nat /\ requests[i].price \in Nat
        /\ Shown(requests[i]) /\ approver[a].shown \in Nat \ {0}
        /\ requests[i].moved \/ requests[i].price = approver[a].shown
        /\ approver[a].loaded \in Open
    BY <1>0, <1>6, RequestTypes DEF Decide, HandInv, ApprovalInv, ApproverState, Prices
  <2>3. /\ r.moved = requests[i].moved /\ r.price = requests[i].price
        /\ r.status = IF v = approver[a].loaded THEN requests[i].status ELSE v
        /\ r.shown = IF v = "APPROVED" THEN Lowest(requests[i].shown, approver[a].shown)
                     ELSE requests[i].shown
    BY <2>2 DEF Decided, Requests
  <2> HIDE DEF i, r
  <2>4. /\ r.shown \in Nat
        /\ requests[i].shown # 0 => r.shown # 0 /\ r.shown <= requests[i].shown
        /\ v = "APPROVED" => r.shown # 0 /\ r.shown <= approver[a].shown
    BY <2>2, <2>3 DEF Lowest
  <2>5. Shown(r)
    <3>1. CASE v = "APPROVED"
      BY <2>2, <2>3, <2>4, <3>1 DEF Shown
    <3>2. CASE v # "APPROVED"
      BY <2>2, <2>3, <3>2 DEF Shown
    <3> QED
      BY <3>1, <3>2
  <2>6. /\ \A j \in DOMAIN requests : Carried(j)
        /\ \A j \in DOMAIN requests' : j \in DOMAIN requests
    BY <2>1, <2>3, <2>4, <2>5, OneRewritten
  <2>7. \A b \in Approvers : approver'[b] = approver[b] \/ approver'[b] = NoHand
    BY <1>0, <1>6 DEF Decide
  <2> QED
    BY <1>6, <2>6, <2>7, Onward DEF Decide
<1> QED
  BY <1>3, <1>4, <1>5, <1>6 DEF ApproverStep

\* The press: only the gate has anything to show.
LEMMA ApprovalPress ==
  ASSUME Typed, ApprovalInv, PressStep, UNCHANGED given
  PROVE  ApprovalInv'
<1>1. press \in PressState
  BY DEF Typed, TypeOK
<1>2. UNCHANGED <<requests, approver>>
  BY DEF PressStep, Plan, Judge, PreFlight, Refused, Post, PostLost, SettleFound, SettleNone,
         SettleFails, RecordDocument, RecordFails, RecordMark, ReadOutcome, WriteOutcome,
         OutcomeTaken, Crash, people
<1>3. ASSUME press'.by # 0 => press'.by \in DOMAIN requests, SentAsShown'
      PROVE  ApprovalInv'
  BY <1>2, <1>3 DEF ApprovalInv, HandInv, Shown
<1>4. ASSUME press'.step \in {"idle", "assessed"}, press'.by = 0
      PROVE  ApprovalInv'
  BY <1>3, <1>4 DEF SentAsShown
<1>5. ASSUME press.step \notin {"idle", "assessed"},
             press'.by = press.by, press'.price = press.price, press'.judged = press.judged
      PROVE  ApprovalInv'
  BY <1>2, <1>3, <1>5 DEF SentAsShown, ApprovalInv
<1>6. press' = NoPress => ApprovalInv'
  BY <1>4 DEF NoPress
<1>7. ASSUME NEW manual \in BOOLEAN, Plan(manual) PROVE ApprovalInv'
  <2>1. press'.step = "assessed" /\ press'.by = 0
    BY <1>7 DEF Plan, NoPress
  <2> QED
    BY <1>4, <2>1
<1>8. CASE Judge
  <2>1. CASE press' = NoPress
    BY <1>6, <2>1
  <2>2. CASE /\ NeedsApproval => Covered(Len(requests))
             /\ press' = [press EXCEPT !.step = "cleared", !.by = Len(requests)]
    <3>1. press'.by = Len(requests) /\ press'.price = press.price /\ press'.judged = press.judged
      BY <1>1, <2>2 DEF PressState
    <3>2. press'.by # 0 => press'.by \in DOMAIN requests
      BY <3>1, RequestTypes
    <3>3. SentAsShown'
      <4> SUFFICES ASSUME press.price < given.floor, press.judged = press.price
                   PROVE  /\ Len(requests) # 0
                          /\ \/ requests[Len(requests)].moved
                             \/ /\ requests[Len(requests)].shown # 0
                                /\ requests[Len(requests)].shown <= press.price
        BY <1>2, <3>1 DEF SentAsShown
      <4>1. Covered(Len(requests))
        BY <2>2 DEF NeedsApproval
      <4>2. Len(requests) \in DOMAIN requests
        BY <4>1, RequestTypes DEF Covered
      <4>3. /\ Shown(requests[Len(requests)]) /\ requests[Len(requests)].shown \in Nat
            /\ requests[Len(requests)].price \in Nat /\ press.price \in Nat
        BY <4>2, RequestTypes DEF ApprovalInv
      <4> QED
        BY <4>1, <4>3 DEF Covered, Shown
    <3> QED
      BY <1>3, <3>2, <3>3
  <2> QED
    BY <1>8, <2>1, <2>2 DEF Judge
<1>9. CASE Refused \/ SettleNone \/ SettleFails \/ WriteOutcome \/ OutcomeTaken \/ Crash
  BY <1>6, <1>9 DEF Refused, SettleNone, SettleFails, WriteOutcome, OutcomeTaken, Crash
<1>10. ASSUME NEW i, NEW how, Landed(i, how), press.step \notin {"idle", "assessed"}
       PROVE  ApprovalInv'
  <2>1. press'.by = press.by /\ press'.price = press.price /\ press'.judged = press.judged
    BY <1>1, <1>10 DEF Landed, PressState
  <2> QED
    BY <1>5, <1>10, <2>1
<1>11. CASE PreFlight
  <2>1. CASE \E i \in Found(press.rev) : Landed(i, "found")
    BY <1>10, <1>11, <2>1 DEF PreFlight
  <2>2. CASE press' = [press EXCEPT !.step = "posting"]
    <3>1. press'.by = press.by /\ press'.price = press.price /\ press'.judged = press.judged
      BY <1>1, <2>2 DEF PressState
    <3> QED
      BY <1>5, <1>11, <3>1 DEF PreFlight
  <2> QED
    BY <1>11, <2>1, <2>2 DEF PreFlight
<1>12. CASE Post \/ SettleFound
  BY <1>10, <1>12 DEF Post, SettleFound
<1>13. CASE PostLost \/ RecordMark
  <2>1. press'.by = press.by /\ press'.price = press.price /\ press'.judged = press.judged
    BY <1>1, <1>13 DEF PostLost, RecordMark, PressState
  <2> QED
    BY <1>5, <1>13, <2>1 DEF PostLost, RecordMark
<1>14. CASE RecordDocument \/ RecordFails
  <2> DEFINE last == IF press.rev > 1 THEN Previous ELSE 0
  <2>1. press.step = "landed" /\ press' = [press EXCEPT !.step = "recorded", !.prev = last]
    BY <1>14 DEF RecordDocument, RecordFails
  <2> HIDE DEF last
  <2>2. press'.by = press.by /\ press'.price = press.price /\ press'.judged = press.judged
    BY <1>1, <2>1 DEF PressState
  <2> QED
    BY <1>5, <2>1, <2>2
<1>15. CASE ReadOutcome
  <2>1. CASE press' = NoPress
    BY <1>6, <2>1
  <2>2. CASE press' = [press EXCEPT !.step = "noting", !.seen = outcome.status, !.about = outcome.doc]
    <3>1. press'.by = press.by /\ press'.price = press.price /\ press'.judged = press.judged
      BY <1>1, <2>2 DEF PressState
    <3> QED
      BY <1>5, <1>15, <3>1 DEF ReadOutcome
  <2> QED
    BY <1>15, <2>1, <2>2 DEF ReadOutcome
<1> QED
  BY <1>7, <1>8, <1>9, <1>11, <1>12, <1>13, <1>14, <1>15 DEF PressStep

\* Every step keeps ApprovalInv.
LEMMA ApprovalStep ==
  ASSUME Typed, Typed', ApprovalInv, [Next]_vars
  PROVE  ApprovalInv'
<1>1. \A a \in Approvers : approver' = approver => approver'[a] = approver[a]
  OBVIOUS
<1>2. CASE UNCHANGED vars
  BY <1>1, <1>2, AllKept, Onward DEF vars, people
<1>3. ASSUME UNCHANGED given, \/ \E p \in given.prices : Reprice(p)
                              \/ \E status \in {"WON", "LOST"} : Answer(status)
      PROVE  ApprovalInv'
  BY <1>1, <1>3, AllKept, Onward DEF Reprice, Answer, people
<1> QED
  BY <1>2, <1>3, ApprovalSeller, ApprovalApprover, ApprovalPress DEF Next

\* It holds at the start.
LEMMA ApprovalInit == Init => ApprovalInv
BY DEF Init, ApprovalInv, HandInv, SentAsShown, NoPress, NoHand

(* quote_submission_block lets a line below the floor pass only on an approval
   by somebody who had been shown that price or a lower one, unless the request
   moved while it was decided or another snapshot stood for the press's. *)
THEOREM SentAsShownHolds == Spec => []SentAsShown
<1>1. ApprovalInv => SentAsShown
  BY DEF ApprovalInv
<1>2. Spec => [](Typed /\ ApprovalInv)
  BY TypedInit, TypedStep, ApprovalInit, ApprovalStep, PTL DEF Spec
<1> QED
  BY <1>1, <1>2, PTL
-----------------------------------------------------------------------------
(* The outcome.                                                             *)

\* A quote that has left the desk.
Answered == {"SENT", "WON", "LOST"}

\* Between a document's row and the quote's outcome.
Between == press.step \in {"recorded", "noting"} /\ press.doc # 0

\* The rows that name a document are those of a document written.
FileInv ==
  /\ \A k \in DOMAIN rows : rows[k].doc # 0 <=> k \in WrittenRows
  /\ NextRevision >= 1
  /\ NextRevision = 1 => WrittenRows = {}

\* What the press may count on when it comes to the outcome.
PressOutcome ==
  /\ press.step \in {"assessed", "cleared"} => press.doc = 0
  /\ press.step = "noting" =>
       /\ press.about = outcome.doc /\ press.seen \in {"none", "DRAFT", "SENT"}
       /\ press.seen = "SENT" => outcome.status \in Answered
       /\ press.doc = 0 /\ ~cut /\ LatestWritten # 0 => press.seen = "SENT"
  /\ Between => LatestWritten = press.doc \/ ~OwnDocument(press.doc)
  /\ press.step = "recorded" /\ press.doc # 0 /\ ~cut /\ outcome.status = "SENT" =>
       \/ outcome.doc \in {0, press.doc, press.prev}
       \/ ~OwnDocument(outcome.doc)

\* Between presses the outcome is on the latest document, or on one no row names.
OutcomeInv ==
  /\ outcome.status \in {"none", "DRAFT"} => outcome.doc = 0
  /\ ~cut /\ ~Between /\ LatestWritten # 0 =>
       /\ outcome.status \in Answered
       /\ outcome.status = "SENT" =>
            \/ outcome.doc = LatestWritten
            \/ outcome.doc # 0 /\ ~OwnDocument(outcome.doc)

\* Rows, press and outcome together.
NotingInv == FileInv /\ PressOutcome /\ OutcomeInv

\* The latest written row is there when a written row is.
LEMMA Filing ==
  ASSUME Typed
  PROVE  /\ WrittenRows \in SUBSET (1..Len(rows)) /\ Len(rows) \in Nat
         /\ WrittenRows # {} => \E k \in WrittenRows : \A l \in WrittenRows : l <= k
         /\ WrittenRows = {} => LatestWritten = 0
         /\ FileInv /\ WrittenRows # {} => LatestWritten # 0
<1>1. WrittenRows \in SUBSET (1..Len(rows)) /\ Len(rows) \in Nat
  BY Counting DEF WrittenRows
<1>2. WrittenRows # {} => \E k \in WrittenRows : \A l \in WrittenRows : l <= k
  BY <1>1, GreatestExists
<1>3. ASSUME FileInv, WrittenRows # {} PROVE LatestWritten # 0
  <2>1. PICK k \in WrittenRows : LatestWritten = rows[k].doc
    BY <1>2, <1>3 DEF LatestWritten
  <2>2. k \in DOMAIN rows
    BY DEF WrittenRows
  <2> QED
    BY <1>3, <2>1, <2>2 DEF FileInv
<1> QED
  BY <1>1, <1>2, <1>3 DEF LatestWritten

\* A document's row becomes the latest; another row leaves it.
LEMMA Filed ==
  ASSUME Typed, FileInv, NEW r \in Rows, rows' = Append(rows, r), r.rev = NextRevision
  PROVE  /\ r.state = "WRITTEN" /\ r.channel = "ERP" /\ r.doc # 0 =>
              /\ FileInv' /\ LatestWritten' = r.doc
              /\ \A i : OwnDocument(i)' <=> OwnDocument(i) \/ i = r.doc
         /\ (r.state # "WRITTEN" \/ r.channel # "ERP") /\ r.doc = 0 =>
              /\ FileInv' /\ LatestWritten' = LatestWritten
              /\ \A i : i # 0 => (OwnDocument(i)' <=> OwnDocument(i))
<1> DEFINE n == Len(rows) + 1
<1>1. /\ DOMAIN rows' = 1..n /\ DOMAIN rows = 1..Len(rows) /\ Len(rows) \in Nat /\ n \in Nat
      /\ n \in DOMAIN rows' /\ rows'[n] = r
      /\ \A k \in DOMAIN rows : k \in DOMAIN rows' /\ rows'[k] = rows[k]
      /\ \A k \in DOMAIN rows' : k \in DOMAIN rows \/ k = n
      /\ NextRevision' = IF r.state = "UNVERIFIED" THEN r.rev ELSE r.rev + 1
      /\ NextRevision \in Nat
  BY RowAdded, Counting
<1>2. WrittenRows \in SUBSET (1..Len(rows))
  BY Filing
<1>3. n \notin DOMAIN rows /\ n \notin WrittenRows
  BY <1>1, <1>2
<1> HIDE DEF n
<1>4. \A i : OwnDocument(i)' <=> OwnDocument(i) \/ i = r.doc
  BY <1>1 DEF OwnDocument
<1>5. ASSUME r.state = "WRITTEN", r.channel = "ERP", r.doc # 0
      PROVE  FileInv' /\ LatestWritten' = r.doc
  <2>1. WrittenRows' = WrittenRows \cup {n}
    BY <1>1, <1>5 DEF WrittenRows
  <2>2. \A k \in WrittenRows' : (\A l \in WrittenRows' : l <= k) <=> k = n
    BY <1>1, <1>2, <2>1
  <2>3. (CHOOSE k \in WrittenRows' : \A l \in WrittenRows' : l <= k) = n
    BY <2>1, <2>2
  <2>4. LatestWritten' = rows'[CHOOSE k \in WrittenRows' : \A l \in WrittenRows' : l <= k].doc
    BY <2>1 DEF LatestWritten
  <2>5. \A k \in DOMAIN rows' : rows'[k].doc # 0 <=> k \in WrittenRows'
    BY <1>1, <1>3, <1>5, <2>1 DEF FileInv
  <2>6. NextRevision' >= 1 /\ NextRevision' # 1
    BY <1>1, <1>5 DEF FileInv
  <2> QED
    BY <1>1, <2>3, <2>4, <2>5, <2>6 DEF FileInv
<1>6. ASSUME r.state # "WRITTEN" \/ r.channel # "ERP", r.doc = 0
      PROVE  FileInv' /\ LatestWritten' = LatestWritten
  <2>1. WrittenRows' = WrittenRows
    BY <1>1, <1>6 DEF WrittenRows
  <2>2. \A k \in WrittenRows : rows'[k] = rows[k]
    BY <1>1, <1>2
  <2>3. LatestWritten' = LatestWritten
    <3>1. CASE WrittenRows = {}
      BY <2>1, <3>1 DEF LatestWritten
    <3>2. CASE WrittenRows # {}
      <4> DEFINE latest == CHOOSE k \in WrittenRows : \A l \in WrittenRows : l <= k
      <4>1. latest \in WrittenRows
        BY <3>2, Filing
      <4>2. LatestWritten = rows[latest].doc /\ LatestWritten' = rows'[latest].doc
        BY <2>1, <3>2 DEF LatestWritten
      <4> QED
        BY <2>2, <4>1, <4>2
    <3> QED
      BY <3>1, <3>2
  <2>4. \A k \in DOMAIN rows' : rows'[k].doc # 0 <=> k \in WrittenRows'
    BY <1>1, <1>3, <1>6, <2>1 DEF FileInv
  <2>5. NextRevision' >= 1 /\ (NextRevision' = 1 => NextRevision = 1)
    BY <1>1 DEF FileInv
  <2> QED
    BY <2>1, <2>3, <2>4, <2>5 DEF FileInv
<1> QED
  BY <1>4, <1>5, <1>6

\* FileInv is about the rows alone.
LEMMA FileKept ==
  ASSUME FileInv, UNCHANGED rows
  PROVE  /\ FileInv' /\ LatestWritten' = LatestWritten
         /\ \A i : OwnDocument(i)' <=> OwnDocument(i)
BY DEF FileInv, LatestWritten, WrittenRows, NextRevision, Retrying, Newest, OwnDocument

\* What other people do to the outcome: a snapshot, an answer.
LEMMA NotingPeople ==
  ASSUME Typed, NotingInv, UNCHANGED rows, UNCHANGED cut,
         \/ UNCHANGED press
         \/ press.step = "assessed" /\ \E p : press' = [press EXCEPT !.judged = p],
         \/ UNCHANGED outcome
         \/ /\ outcome.status \in {"none", "DRAFT"}
            /\ outcome' = [outcome EXCEPT !.status = "DRAFT"]
         \/ \E status \in {"WON", "LOST"} :
              /\ outcome.status = "SENT" \/ status = "LOST"
              /\ outcome' = [outcome EXCEPT !.status = status]
  PROVE  NotingInv'
<1>1. /\ FileInv' /\ LatestWritten' = LatestWritten
      /\ \A i : OwnDocument(i)' <=> OwnDocument(i)
  BY FileKept DEF NotingInv
<1>2. /\ press'.step = press.step /\ press'.doc = press.doc /\ press'.prev = press.prev
      /\ press'.seen = press.seen /\ press'.about = press.about /\ Between' = Between
  <2>1. press \in PressState
    BY DEF Typed, TypeOK
  <2>2. /\ press'.step = press.step /\ press'.doc = press.doc /\ press'.prev = press.prev
        /\ press'.seen = press.seen /\ press'.about = press.about
    BY <2>1 DEF PressState
  <2> QED
    BY <2>2 DEF Between
<1>3. /\ outcome'.doc = outcome.doc
      /\ outcome'.status = "SENT" => outcome.status = "SENT"
      /\ outcome'.status \in {"none", "DRAFT"} => outcome.status \in {"none", "DRAFT"}
      /\ outcome.status \in Answered => outcome'.status \in Answered
  <2>1. outcome \in [status : Outcomes, doc : Nat]
    BY DEF Typed, TypeOK
  <2> QED
    BY <2>1 DEF Answered
<1>4. PressOutcome'
  BY <1>1, <1>2, <1>3 DEF NotingInv, PressOutcome, Between
<1>5. OutcomeInv'
  BY <1>1, <1>2, <1>3 DEF NotingInv, OutcomeInv
<1> QED
  BY <1>1, <1>4, <1>5 DEF NotingInv

\* Every step of a press keeps the outcome with the rows.
LEMMA NotingPress ==
  ASSUME Typed, StoreInv, SendInv, NotingInv, PressStep
  PROVE  NotingInv'
<1>1. /\ press \in PressState /\ press.doc \in Nat /\ cut \in BOOLEAN
      /\ outcome \in [status : Outcomes, doc : Nat]
  BY DEF Typed, TypeOK, PressState
<1>2. ASSUME UNCHANGED rows
      PROVE  /\ FileInv' /\ LatestWritten' = LatestWritten
             /\ \A i : OwnDocument(i)' <=> OwnDocument(i)
  BY <1>2, FileKept DEF NotingInv
<1>3. ASSUME UNCHANGED <<rows, outcome, cut>>, press.step \notin {"recorded", "noting"},
             press'.step \notin {"recorded", "noting"},
             press'.step \in {"assessed", "cleared"} => press'.doc = 0
      PROVE  NotingInv'
  BY <1>2, <1>3 DEF NotingInv, PressOutcome, OutcomeInv, Between
<1>4. ASSUME press.step \notin {"recorded", "noting"}, UNCHANGED <<rows, outcome, cut>>,
             press' = NoPress
      PROVE  NotingInv'
  BY <1>3, <1>4 DEF NoPress
<1>5. ASSUME NEW manual \in BOOLEAN, Plan(manual) PROVE NotingInv'
  <2>1. press'.step = "assessed" /\ press'.doc = 0 /\ press.step = "idle"
    BY <1>5 DEF Plan, NoPress
  <2> QED
    BY <1>3, <1>5, <2>1 DEF Plan
<1>6. CASE Judge
  <2>1. CASE press' = NoPress
    BY <1>4, <1>6, <2>1 DEF Judge
  <2>2. CASE press' = [press EXCEPT !.step = "cleared", !.by = Len(requests)]
    <3>1. press'.step = "cleared" /\ press'.doc = 0
      BY <1>1, <1>6, <2>2 DEF Judge, PressState, NotingInv, PressOutcome
    <3> QED
      BY <1>3, <1>6, <3>1 DEF Judge
  <2> QED
    BY <1>6, <2>1, <2>2 DEF Judge
<1>7. CASE Refused \/ SettleNone
  BY <1>4, <1>7 DEF Refused, SettleNone
<1>8. CASE PreFlight \/ Post \/ PostLost \/ SettleFound
  <2>1. /\ press'.step \in {"landed", "posting", "unsure"}
        /\ press.step \in {"cleared", "posting", "unsure"}
    BY <1>1, <1>8 DEF PreFlight, Post, PostLost, SettleFound, Landed, PressState
  <2> QED
    BY <1>3, <1>8, <2>1 DEF PreFlight, Post, PostLost, SettleFound
<1>9. ASSUME NEW c \in Prices, NEW d \in Nat, NEW ch \in {"ERP", "MANUAL"},
             NEW st \in {"WRITTEN", "UNVERIFIED"}
      PROVE  /\ Row(c, d, ch, st) \in Rows /\ Row(c, d, ch, st).rev = press.rev
             /\ Row(c, d, ch, st).doc = d /\ Row(c, d, ch, st).channel = ch
             /\ Row(c, d, ch, st).state = st
  BY <1>1 DEF Row, Rows, PressState
<1>10. CASE SettleFails
  <2> DEFINE r == Row(press.price, 0, "ERP", "UNVERIFIED")
  <2>1. /\ r \in Rows /\ r.rev = NextRevision /\ r.state # "WRITTEN" /\ r.doc = 0
        /\ rows' = Append(rows, r) /\ UNCHANGED <<outcome, cut>> /\ press' = NoPress
        /\ press.step = "unsure"
    BY <1>9, <1>10 DEF SettleFails, Typed, PricesInv, SendInv
  <2> HIDE DEF r
  <2>2. /\ FileInv' /\ LatestWritten' = LatestWritten
        /\ \A i : i # 0 => (OwnDocument(i)' <=> OwnDocument(i))
    BY <2>1, Filed DEF NotingInv
  <2>3. press'.step = "idle"
    BY <2>1 DEF NoPress
  <2> QED
    BY <2>1, <2>2, <2>3 DEF NotingInv, PressOutcome, OutcomeInv, Between
<1>11. ASSUME press.step = "landed"
       PROVE  /\ press.doc # 0 /\ press.rev = NextRevision
              /\ ~cut /\ outcome.status = "SENT" =>
                   \/ outcome.doc \in {0, IF press.rev > 1 THEN Previous ELSE 0}
                   \/ ~OwnDocument(outcome.doc)
  <2>1. press.doc # 0 /\ press.rev = NextRevision /\ NextRevision \in Nat
    BY <1>11, Counting DEF SendInv
  <2>2. ~Between
    BY <1>11 DEF Between
  <2>3. CASE WrittenRows = {}
    <3>1. outcome.doc # 0 => ~OwnDocument(outcome.doc)
      BY <2>3 DEF OwnDocument, NotingInv, FileInv
    <3> QED
      BY <2>1, <3>1
  <2>4. CASE WrittenRows # {}
    <3>1. LatestWritten # 0 /\ press.rev > 1
      BY <2>1, <2>4, Filing DEF NotingInv, FileInv
    <3> QED
      BY <2>1, <2>2, <3>1 DEF NotingInv, OutcomeInv, Previous
  <2> QED
    BY <2>3, <2>4
<1>12. ASSUME press.step = "landed", UNCHANGED <<outcome, cut>>,
              press' = [press EXCEPT !.step = "recorded",
                                     !.prev = IF press.rev > 1 THEN Previous ELSE 0]
       PROVE  /\ press'.step = "recorded" /\ press'.doc = press.doc
              /\ press'.prev = IF press.rev > 1 THEN Previous ELSE 0
              /\ Between'
  <2> DEFINE last == IF press.rev > 1 THEN Previous ELSE 0
  <2>1. press' = [press EXCEPT !.step = "recorded", !.prev = last]
    BY <1>12
  <2> HIDE DEF last
  <2>2. press'.step = "recorded" /\ press'.doc = press.doc /\ press'.prev = last
    BY <1>1, <2>1 DEF PressState
  <2> QED
    BY <1>11, <1>12, <2>2 DEF Between, last
<1>13. CASE RecordDocument
  <2> DEFINE r == Row(SentContent, press.doc, "ERP", "WRITTEN")
  <2>1. SentContent \in Prices
    BY <1>13 DEF RecordDocument, SentContent, Typed, PricesInv
  <2>2. /\ r \in Rows /\ r.rev = press.rev /\ r.state = "WRITTEN" /\ r.channel = "ERP"
        /\ r.doc = press.doc
    BY <1>1, <1>9, <2>1
  <2>3. /\ rows' = Append(rows, r) /\ UNCHANGED <<outcome, cut>> /\ press.step = "landed"
        /\ press' = [press EXCEPT !.step = "recorded",
                                  !.prev = IF press.rev > 1 THEN Previous ELSE 0]
    BY <1>13 DEF RecordDocument
  <2> HIDE DEF r
  <2>4. /\ FileInv' /\ LatestWritten' = press.doc
        /\ \A i : OwnDocument(i)' <=> OwnDocument(i) \/ i = press.doc
    BY <1>11, <2>2, <2>3, Filed DEF NotingInv
  <2> QED
    BY <1>11, <1>12, <2>3, <2>4 DEF NotingInv, PressOutcome, OutcomeInv
<1>14. CASE RecordFails
  <2>1. /\ UNCHANGED <<rows, outcome, cut>> /\ press.step = "landed"
        /\ press' = [press EXCEPT !.step = "recorded",
                                  !.prev = IF press.rev > 1 THEN Previous ELSE 0]
    BY <1>14 DEF RecordFails
  <2>2. ~OwnDocument(press.doc)
    <3>1. PICK i \in DOMAIN books : press.doc = i /\ books[i].rev = NextRevision
      BY <2>1 DEF SendInv
    <3>2. ASSUME NEW k \in DOMAIN rows, rows[k].doc = i PROVE FALSE
      <4>1. i # 0 /\ NextRevision \in Nat
        BY Counting
      <4> QED
        BY <3>1, <3>2, <4>1 DEF StoreInv
    <3> QED
      BY <3>1, <3>2 DEF OwnDocument
  <2> QED
    BY <1>2, <1>11, <1>12, <2>1, <2>2 DEF NotingInv, PressOutcome, OutcomeInv
<1>15. CASE RecordMark
  <2> DEFINE r == Row(press.price, 0, "MANUAL", "WRITTEN")
  <2>1. /\ r \in Rows /\ r.rev = NextRevision /\ r.channel # "ERP" /\ r.doc = 0
        /\ rows' = Append(rows, r) /\ UNCHANGED <<outcome, cut>> /\ press.step = "cleared"
    BY <1>9, <1>15 DEF RecordMark, Typed, PricesInv, SendInv
  <2>2. press'.step = "recorded" /\ press'.doc = 0 /\ ~Between /\ ~Between'
    <3>1. press.doc = 0
      BY <2>1 DEF NotingInv, PressOutcome
    <3>2. press'.step = "recorded" /\ press'.doc = press.doc
      BY <1>1, <1>15 DEF RecordMark, PressState
    <3> QED
      BY <3>1, <3>2 DEF Between
  <2> HIDE DEF r
  <2>3. /\ FileInv' /\ LatestWritten' = LatestWritten
        /\ \A i : i # 0 => (OwnDocument(i)' <=> OwnDocument(i))
    BY <2>1, Filed DEF NotingInv
  <2> QED
    BY <2>1, <2>2, <2>3 DEF NotingInv, PressOutcome, OutcomeInv
<1>16. CASE ReadOutcome
  <2>1. press.step = "recorded" /\ UNCHANGED <<rows, outcome, cut>>
    BY <1>16 DEF ReadOutcome
  <2>2. CASE /\ outcome.status \in {"WON", "LOST"} \/ ~MayMove
             /\ press' = NoPress
    <3>1. press'.step = "idle" /\ ~Between'
      BY <2>2 DEF NoPress, Between
    <3>2. ~cut /\ LatestWritten # 0 => outcome.status \in Answered
      <4>1. ~MayMove => outcome.doc # 0
        BY DEF MayMove
      <4>2. outcome.status \in Answered \/ outcome.doc = 0
        BY <1>1 DEF NotingInv, OutcomeInv, Answered, Outcomes
      <4> QED
        BY <2>2, <4>1, <4>2 DEF Answered
    <3>3. ~cut /\ LatestWritten # 0 /\ outcome.status = "SENT" =>
            outcome.doc # 0 /\ ~OwnDocument(outcome.doc)
      <4> SUFFICES ASSUME ~cut, outcome.status = "SENT"
                   PROVE  outcome.doc # 0 /\ ~OwnDocument(outcome.doc)
        OBVIOUS
      <4>1. ~MayMove
        BY <2>2
      <4>2. press.doc # 0 /\ outcome.doc \notin {0, press.doc}
        BY <4>1 DEF MayMove
      <4>3. outcome.doc = press.prev \/ ~OwnDocument(outcome.doc)
        BY <2>1, <4>2 DEF NotingInv, PressOutcome
      <4> QED
        BY <4>1, <4>2, <4>3 DEF MayMove
    <3> QED
      BY <1>2, <2>1, <3>1, <3>2, <3>3 DEF NotingInv, PressOutcome, OutcomeInv
  <2>3. CASE /\ outcome.status \notin {"WON", "LOST"}
             /\ press' = [press EXCEPT !.step = "noting", !.seen = outcome.status,
                                       !.about = outcome.doc]
    <3>1. /\ press'.step = "noting" /\ press'.doc = press.doc
          /\ press'.seen = outcome.status /\ press'.about = outcome.doc
      BY <1>1, <2>3 DEF PressState
    <3>2. Between' <=> Between
      BY <2>1, <3>1 DEF Between
    <3>3. outcome.status \in {"none", "DRAFT", "SENT"}
      BY <1>1, <2>3 DEF Outcomes
    <3>4. press.doc = 0 /\ ~cut /\ LatestWritten # 0 => outcome.status = "SENT"
      BY <2>1, <2>3 DEF NotingInv, OutcomeInv, Between, Answered
    <3>5. "SENT" \in Answered
      BY DEF Answered
    <3> QED
      BY <1>2, <2>1, <3>1, <3>2, <3>3, <3>4, <3>5 DEF NotingInv, PressOutcome, OutcomeInv
  <2> QED
    BY <1>16, <2>2, <2>3 DEF ReadOutcome
<1>17. CASE WriteOutcome
  <2>1. /\ press.step = "noting" /\ UNCHANGED <<rows, cut>> /\ press' = NoPress
        /\ outcome'.status = IF press.seen = "SENT" THEN outcome.status ELSE "SENT"
        /\ outcome'.doc = IF press.doc \in {0, press.about} THEN outcome.doc ELSE press.doc
    BY <1>17 DEF WriteOutcome
  <2>2. press'.step = "idle" /\ ~Between'
    BY <2>1 DEF NoPress, Between
  <2>3. outcome'.status \in Answered
    BY <2>1 DEF NotingInv, PressOutcome, Answered
  <2>4. CASE press.doc # 0
    <3>1. outcome'.doc = press.doc
      BY <2>1, <2>4 DEF NotingInv, PressOutcome
    <3>2. LatestWritten = press.doc \/ ~OwnDocument(press.doc)
      BY <2>1, <2>4 DEF NotingInv, PressOutcome, Between
    <3> QED
      BY <1>2, <2>1, <2>2, <2>3, <2>4, <3>1, <3>2
         DEF NotingInv, PressOutcome, OutcomeInv, Answered
  <2>5. CASE press.doc = 0
    <3>1. outcome'.doc = outcome.doc /\ ~Between
      BY <2>1, <2>5 DEF Between
    <3>2. ~cut /\ LatestWritten # 0 => outcome'.status = outcome.status
      BY <2>1, <2>5 DEF NotingInv, PressOutcome
    <3> QED
      BY <1>2, <2>1, <2>2, <2>3, <3>1, <3>2 DEF NotingInv, PressOutcome, OutcomeInv, Answered
  <2> QED
    BY <2>4, <2>5
<1>18. CASE OutcomeTaken \/ Crash
  <2>1. UNCHANGED <<rows, outcome>> /\ press' = NoPress
    BY <1>18 DEF OutcomeTaken, Crash
  <2>2. press'.step = "idle"
    BY <2>1 DEF NoPress
  <2>3. ~cut' => ~cut /\ press.step \notin {"recorded", "noting"}
    BY <1>18 DEF OutcomeTaken, Crash
  <2> QED
    BY <1>2, <2>1, <2>2, <2>3 DEF NotingInv, PressOutcome, OutcomeInv, Between
<1> QED
  BY <1>5, <1>6, <1>7, <1>8, <1>10, <1>13, <1>14, <1>15, <1>16, <1>17, <1>18 DEF PressStep

\* So does every step.
LEMMA NotingStep ==
  ASSUME Typed, StoreInv, SendInv, NotingInv, [Next]_vars
  PROVE  NotingInv'
<1>1. ASSUME NEW s \in Sellers, SellerStep(s) PROVE NotingInv'
  BY <1>1, NotingPeople DEF SellerStep, Look, Raise, Withdraw, Record, GiveUp
<1>2. ASSUME NEW a \in Approvers, ApproverStep(a) PROVE NotingInv'
  BY <1>2, NotingPeople DEF ApproverStep, Show, Load, PutDown, Decide
<1>3. ASSUME NEW status \in {"WON", "LOST"}, Answer(status) PROVE NotingInv'
  BY <1>3, NotingPeople DEF Answer
<1>4. CASE UNCHANGED vars \/ \E p \in given.prices : Reprice(p)
  BY <1>4, NotingPeople DEF Reprice, vars
<1> QED
  BY <1>1, <1>2, <1>3, <1>4, NotingPress DEF Next

\* They agree at the start.
LEMMA NotingInit == Init => NotingInv
BY DEF Init, NotingInv, FileInv, PressOutcome, OutcomeInv, Between, WrittenRows,
       LatestWritten, NextRevision, NoPress

(* set_outcome never leaves a sent quote on a document an older row names,
   unless the press ended between its row and the outcome: the document before
   it is read before the row is written, and is where the outcome still is. *)
THEOREM OutcomeFollowsHolds == Spec => []OutcomeFollows
<1>1. NotingInv => OutcomeFollows
  BY DEF NotingInv, OutcomeInv, OutcomeFollows, Between
<1>2. Spec => [](Typed /\ StoreInv /\ SendInv /\ NotingInv)
  BY TypedInit, TypedStep, StoreInit, StoreStep, NotingInit, NotingStep, PTL DEF Spec
<1> QED
  BY <1>1, <1>2, PTL
=============================================================================
