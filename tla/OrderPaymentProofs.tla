-------------------------- MODULE OrderPaymentProofs --------------------------
(***************************************************************************)
(* Safety of an order and its payments, for any number of payment rows,    *)
(* deals and void attempts and for any amounts.                            *)
(*                                                                         *)
(* RowInv is an invariant of the committed rows alone; it is preserved by  *)
(* the operators the handlers are made of, one lemma each.  IInv adds what *)
(* the worker's stale view of the provider and the provider's own records  *)
(* must satisfy, and is preserved by every action.                         *)
(*                                                                         *)
(* On top of IInv: ChargeInv follows each transaction from the lock it     *)
(* takes to its commit, and gives the properties of what is collected;     *)
(* AgreeInv relates the order and its payments.                            *)
(***************************************************************************)
EXTENDS OrderPayment, FiniteSetTheorems, TLAPS

Reviewable == {"PAID", "READY_FOR_REVIEW", "REVIEWED"}

OneLive(d) == \A p, q \in Pay : d.pay[p] \in LIVE /\ d.pay[q] \in LIVE => p = q
PaidIsBooked(d) == \A p \in Pay : d.pay[p] \in AFTER_CAPTURE => d.captured[p] > 0
NoneMissed(d) == d.status = "COMPLETED" => \A p \in Pay : d.pay[p] \notin PAYMENT_CONFIRMED
Booked(d, in) ==
  \A p \in Pay : d.captured[p] # 0 =>
    in[p].st = "PAID" /\ (d.captured[p] = in[p].rc \/ p \in d.mismatch)
RatedIsPaid(d) == d.status \in Reviewable => \E p \in Pay : d.pay[p] \in AFTER_CAPTURE

Core(d, in) == d \in Row /\ OneLive(d) /\ PaidIsBooked(d) /\ NoneMissed(d) /\ Booked(d, in)
RowInv(d, in) == Core(d, in) /\ RatedIsPaid(d)

\* A charge the provider collected has an amount.
Collected(in) == \A p \in Pay : in[p].st = "PAID" => in[p].rc # 0

\* The worker works on a payment of the order, and what it believes collected is collected.
ViewIsTrue(w, in) ==
  w.pc # "idle" => w.p \in Pay /\ (w.view.st = "PAID" => in[w.p] = w.view)

IInv == TypeOK /\ RowInv(db, intent) /\ Collected(intent) /\ ViewIsTrue(wk, intent)

USE DEF Amounts, PaymentStatus, OrderStatus, LIVE, AFTER_CAPTURE, PAYMENT_CONFIRMED, CANCELLABLE,
        Reviewable, ProviderStatus

-------------------------------------------------------------------------------
(* Lemmas on the operators from rows to rows.                              *)

\* active_payment returns the live payment, or NoPay when there is none.
LEMMA ActivePayment ==
  ASSUME NEW d
  PROVE  /\ active_payment(d) \in Live(d) \cup {NoPay}
         /\ active_payment(d) = NoPay => Live(d) = {}
BY PayAssumption DEF active_payment, Live

\* A status change other than into COMPLETED or a reviewable status keeps the row invariant.
LEMMA TransitionRow ==
  ASSUME NEW d, NEW in, RowInv(d, in), NEW s \in OrderStatus \ ({"COMPLETED"} \cup Reviewable)
  PROVE  RowInv(transition(d, s), in)
<1>1. transition(d, s) \in Row
  BY DEF transition, Row, RowInv, Core
<1>2. /\ transition(d, s).status = s
      /\ transition(d, s).pay = d.pay /\ transition(d, s).captured = d.captured
      /\ transition(d, s).mismatch = d.mismatch
  BY DEF transition, Row, RowInv, Core
<1> QED BY <1>1, <1>2 DEF RowInv, Core, OneLive, PaidIsBooked, NoneMissed, Booked, RatedIsPaid

\* Approved work: the payment already collected moves the order on, any other is waited for.
LEMMA CompletedRow ==
  ASSUME NEW d, NEW in, RowInv(d, in)
  PROVE  RowInv(_after_completed(transition(d, "COMPLETED")), in)
<1> DEFINE e == transition(d, "COMPLETED")
           a == active_payment(e)
<1>1. e \in Row /\ e = [d EXCEPT !.status = "COMPLETED"]
  BY DEF transition, Row, RowInv, Core
<1>2. /\ e.status = "COMPLETED" /\ e.pay = d.pay /\ e.captured = d.captured
      /\ e.mismatch = d.mismatch
  BY <1>1 DEF Row, RowInv, Core
<1>3. OneLive(e) /\ PaidIsBooked(e) /\ Booked(e, in)
  BY <1>2 DEF RowInv, Core, OneLive, PaidIsBooked, Booked
<1>4. a \in Live(e) \cup {NoPay} /\ (a = NoPay => Live(e) = {})
  BY ActivePayment
<1>5. CASE a # NoPay /\ e.pay[a] \in PAYMENT_CONFIRMED
  <2> DEFINE f == transition(e, "READY_FOR_REVIEW")
  <2>1. _after_completed(e) = f
    BY <1>2, <1>5 DEF _after_completed, on_payment_captured
  <2>2. f \in Row /\ f.status = "READY_FOR_REVIEW" /\ f.pay = e.pay
        /\ f.captured = e.captured /\ f.mismatch = e.mismatch
    BY <1>1 DEF transition, Row
  <2>3. a \in Pay
    BY <1>4, <1>5 DEF Live
  <2> QED BY <2>1, <2>2, <2>3, <1>3, <1>5
           DEF RowInv, Core, OneLive, PaidIsBooked, NoneMissed, Booked, RatedIsPaid
<1>6. CASE ~(a # NoPay /\ e.pay[a] \in PAYMENT_CONFIRMED)
  <2>1. _after_completed(e) = e
    BY <1>6 DEF _after_completed
  <2>2. \A p \in Pay : e.pay[p] \notin PAYMENT_CONFIRMED
    <3> SUFFICES ASSUME NEW p \in Pay, e.pay[p] \in PAYMENT_CONFIRMED PROVE FALSE
      OBVIOUS
    <3>1. p \in Live(e)
      BY DEF Live
    <3>2. a # NoPay /\ a \in Pay /\ e.pay[a] \in LIVE
      BY <3>1, <1>4 DEF Live
    <3>3. p = a
      BY <3>2, <1>3 DEF OneLive
    <3> QED BY <3>2, <3>3, <1>6
  <2> QED BY <2>1, <2>2, <1>1, <1>2, <1>3 DEF RowInv, Core, NoneMissed, RatedIsPaid
<1> QED BY <1>5, <1>6

\* An open payment that changes status, short of being collected, keeps the row invariant.
LEMMA MoveRow ==
  ASSUME NEW d, NEW in, RowInv(d, in), NEW p \in Pay, d.pay[p] \in CANCELLABLE,
         NEW s \in CANCELLABLE \cup {"FAILED", "CANCELLED"}
  PROVE  RowInv(move(d, p, s), in)
<1> DEFINE e == move(d, p, s)
<1>1. e \in Row
  BY DEF move, Row, RowInv, Core
<1>2. /\ e.status = d.status /\ e.captured = d.captured /\ e.mismatch = d.mismatch
      /\ e.pay = [d.pay EXCEPT ![p] = s]
  BY DEF move, Row, RowInv, Core
<1>3. \A q \in Pay : e.pay[q] = IF q = p THEN s ELSE d.pay[q]
  BY <1>2 DEF Row, RowInv, Core
<1> HIDE DEF e
<1>4. OneLive(e)
  BY <1>3 DEF RowInv, Core, OneLive
<1>5. PaidIsBooked(e) /\ NoneMissed(e) /\ Booked(e, in)
  BY <1>2, <1>3 DEF RowInv, Core, PaidIsBooked, NoneMissed, Booked
<1>6. RatedIsPaid(e)
  BY <1>2, <1>3 DEF RowInv, RatedIsPaid
<1>7. RowInv(e, in)
  BY <1>1, <1>4, <1>5, <1>6 DEF RowInv, Core
<1> QED BY <1>7 DEF e

\* Fields the invariant does not read.
LEMMA DepartedRow ==
  ASSUME NEW d, NEW in, RowInv(d, in), NEW b \in BOOLEAN
  PROVE  RowInv([d EXCEPT !.departed = b], in)
BY ZenonT(30) DEF RowInv, Core, Row, OneLive, PaidIsBooked, NoneMissed, Booked, RatedIsPaid

\* Choosing a card (set_payment_method) touches nothing the invariant reads.
LEMMA CardRow ==
  ASSUME NEW d, NEW in, RowInv(d, in), NEW p \in Pay
  PROVE  RowInv([d EXCEPT !.card[p] = TRUE], in)
BY ZenonT(30) DEF RowInv, Core, Row, OneLive, PaidIsBooked, NoneMissed, Booked, RatedIsPaid

\* Queueing, retrying or closing a void request touches nothing the invariant reads.
LEMMA VoidRow ==
  ASSUME NEW d, NEW in, RowInv(d, in), NEW p \in Pay, NEW k \in 0..(MaxVoidAttempts + 1)
  PROVE  RowInv([d EXCEPT !.void[p] = k], in)
BY ZenonT(30) DEF RowInv, Core, Row, OneLive, PaidIsBooked, NoneMissed, Booked, RatedIsPaid

\* Telling finance of a late capture touches nothing the invariant reads.
LEMMA AlertRow ==
  ASSUME NEW d, NEW in, RowInv(d, in), NEW p \in Pay
  PROVE  RowInv([d EXCEPT !.alert = @ \cup {p}], in)
BY ZenonT(30) DEF RowInv, Core, Row, OneLive, PaidIsBooked, NoneMissed, Booked, RatedIsPaid

\* Learning the provider's id of a charge (apply_provider_state) touches nothing the invariant reads.
LEMMA PidRow ==
  ASSUME NEW d, NEW in, Core(d, in), NEW p \in Pay
  PROVE  /\ Core([d EXCEPT !.pid[p] = TRUE], in)
         /\ RatedIsPaid(d) => RatedIsPaid([d EXCEPT !.pid[p] = TRUE])
         /\ [d EXCEPT !.pid[p] = TRUE].pay = d.pay
         /\ [d EXCEPT !.pid[p] = TRUE].status = d.status
BY DEF Core, Row, OneLive, PaidIsBooked, NoneMissed, Booked, RatedIsPaid

\* A new payment joins an order that has no live one.
LEMMA NewPaymentRow ==
  ASSUME NEW d, NEW in, RowInv(d, in), NEW deal \in 0..MaxDeals,
         Live(d) = {}, Unused(d) # {}
  PROVE  RowInv(new_payment(d, deal), in)
<1> DEFINE n == CHOOSE q \in Unused(d) : TRUE
           e == [d EXCEPT !.pay[n] = "PENDING", !.quote[n] = deal]
<1>1. n \in Pay /\ d.pay[n] = "NONE"
  BY DEF Unused
<1> HIDE DEF n
<1>2. e \in Row
  BY <1>1 DEF Row, RowInv, Core
<1>3. /\ e.status = d.status /\ e.captured = d.captured /\ e.mismatch = d.mismatch
      /\ \A q \in Pay : e.pay[q] = IF q = n THEN "PENDING" ELSE d.pay[q]
  BY <1>1 DEF Row, RowInv, Core
<1>4. \A q \in Pay : d.pay[q] \notin LIVE
  BY DEF Live
<1> HIDE DEF e
<1>5. RowInv(e, in)
  BY <1>1, <1>2, <1>3, <1>4 DEF RowInv, Core, OneLive, PaidIsBooked, NoneMissed, Booked, RatedIsPaid
<1> QED BY <1>5 DEF new_payment, n, e

\* The live payment dies and its replacement takes its place, in one transaction.
LEMMA ReplaceRow ==
  ASSUME NEW d, NEW in, RowInv(d, in), NEW p \in Pay, d.pay[p] \in CANCELLABLE,
         NEW s \in {"FAILED", "CANCELLED"}, Unused(d) # {}
  PROVE  RowInv([_replacement(move(d, p, s), p) EXCEPT !.departed = FALSE], in)
<1> DEFINE e == move(d, p, s)
<1>1. RowInv(e, in)
  BY MoveRow
<1>2. \A q \in Pay : e.pay[q] = IF q = p THEN s ELSE d.pay[q]
  BY DEF move, Row, RowInv, Core
<1>3. e.quote[p] \in 0..MaxDeals
  BY <1>1 DEF Row, RowInv, Core
<1> HIDE DEF e
<1>4. Live(e) = {}
  BY <1>2 DEF Live, RowInv, Core, OneLive
<1>5. Unused(e) # {}
  BY <1>2 DEF Unused
<1>6. RowInv(new_payment(e, e.quote[p]), in)
  BY <1>1, <1>3, <1>4, <1>5, NewPaymentRow
<1> QED BY <1>6, DepartedRow DEF _replacement, e

\* Booking a collected charge: the order, if it was waiting for it, becomes reviewable.
LEMMA CapturedRow ==
  ASSUME NEW d, NEW in, Core(d, in), NEW p \in Pay, d.pay[p] \in CANCELLABLE,
         NEW received \in Amounts \ {0}, NEW expected \in Amounts \ {0},
         in[p].st = "PAID", in[p].rc = received
  PROVE  RowInv(mark_captured(d, p, received, expected), in)
<1> DEFINE asQuoted  == received \in {0, expected}
           recompute == expected = Full /\ received \in Parts
           booked    == IF asQuoted \/ ~recompute THEN expected ELSE received
           mm        == IF asQuoted \/ recompute THEN d.mismatch ELSE d.mismatch \cup {p}
           e == [move(d, p, "PAID") EXCEPT !.captured[p] = booked,
                                           !.mismatch = IF asQuoted \/ recompute THEN @ ELSE @ \cup {p}]
           f == on_payment_captured(e)
<1>0. booked \in Amounts /\ booked > 0 /\ (booked = received \/ p \in mm)
  BY AmountAssumption
<1>1. mm \in SUBSET Pay /\ d.mismatch \subseteq mm
  BY DEF Core, Row
<1>2. /\ e \in Row /\ e.status = d.status /\ e.mismatch = mm
      /\ e.pay = [d.pay EXCEPT ![p] = "PAID"] /\ e.captured = [d.captured EXCEPT ![p] = booked]
  BY <1>0, <1>1 DEF move, Core, Row
<1>3. \A q \in Pay : /\ e.pay[q] = IF q = p THEN "PAID" ELSE d.pay[q]
                     /\ e.captured[q] = IF q = p THEN booked ELSE d.captured[q]
  BY <1>2 DEF Core, Row
<1> HIDE DEF e, booked, mm
<1>4. /\ f \in Row /\ f.status # "COMPLETED" /\ f.pay = e.pay /\ f.captured = e.captured
      /\ f.mismatch = e.mismatch
  BY <1>2 DEF on_payment_captured, transition, Row
<1> HIDE DEF f
<1>5. OneLive(f)
  BY <1>3, <1>4 DEF Core, OneLive
<1>6. PaidIsBooked(f)
  BY <1>0, <1>3, <1>4 DEF Core, PaidIsBooked
<1>7. Booked(f, in)
  BY <1>0, <1>1, <1>2, <1>3, <1>4 DEF Core, Booked
<1>8. NoneMissed(f) /\ RatedIsPaid(f)
  BY <1>3, <1>4 DEF NoneMissed, RatedIsPaid
<1>9. RowInv(f, in)
  BY <1>4, <1>5, <1>6, <1>7, <1>8 DEF RowInv, Core
<1>10. mark_captured(d, p, received, expected) = f
  BY DEF mark_captured, f, e, booked
<1> QED BY <1>9, <1>10

\* mark_failed: the failed payment is replaced, or its order fails or stays.
LEMMA FailedRow ==
  ASSUME NEW d, NEW in, RowInv(d, in), NEW p \in Pay, d.pay[p] \in CANCELLABLE,
         NEW os \in OrderStatus, os = "SCHEDULED" => Unused(d) # {}
  PROVE  RowInv(mark_failed(d, p, os), in)
<1>1. CASE os = "SCHEDULED"
  <2>1. mark_failed(d, p, os) = [_replacement(move(d, p, "FAILED"), p) EXCEPT !.departed = FALSE]
    BY <1>1 DEF mark_failed
  <2> QED BY <2>1, <1>1, ReplaceRow
<1>2. CASE os # "SCHEDULED"
  <2>1. mark_failed(d, p, os) = on_payment_failed(move(d, p, "FAILED"), os)
    BY <1>2 DEF mark_failed
  <2>2. RowInv(move(d, p, "FAILED"), in)
    BY MoveRow
  <2>3. RowInv(transition(move(d, p, "FAILED"), "FAILED"), in)
    BY <2>2, TransitionRow
  <2> QED BY <2>1, <2>2, <2>3 DEF on_payment_failed
<1> QED BY <1>1, <1>2

\* _cancelled_by_provider: the expired payment is replaced, or just closed.
LEMMA ExpiredRow ==
  ASSUME NEW d, NEW in, RowInv(d, in), NEW p \in Pay, d.pay[p] \in CANCELLABLE,
         NEW os \in OrderStatus, os = "SCHEDULED" => Unused(d) # {}
  PROVE  RowInv(_cancelled_by_provider(d, p, os), in)
<1>1. RowInv(move(d, p, "CANCELLED"), in)
  BY MoveRow
<1>2. CASE os = "SCHEDULED"
  <2>1. _cancelled_by_provider(d, p, os)
          = [_replacement(move(d, p, "CANCELLED"), p) EXCEPT !.departed = FALSE]
    BY <1>2 DEF _cancelled_by_provider
  <2> QED BY <2>1, <1>2, ReplaceRow
<1>3. CASE os # "SCHEDULED"
  BY <1>1, <1>3 DEF _cancelled_by_provider
<1> QED BY <1>2, <1>3

\* _late_success_on_dead_payment only queues a void or raises an alert.
LEMMA LateRow ==
  ASSUME NEW d, NEW in, RowInv(d, in), NEW p \in Pay, NEW v
  PROVE  RowInv(_late_success_on_dead_payment(d, p, v), in)
<1> DEFINE k == IF d.void[p] = 0 THEN 1 ELSE d.void[p]
<1>1. k \in 0..(MaxVoidAttempts + 1)
  BY BoundAssumption DEF RowInv, Core, Row
<1>2. [d EXCEPT !.void[p] = IF @ = 0 THEN 1 ELSE @] = [d EXCEPT !.void[p] = k]
  OBVIOUS
<1> HIDE DEF k
<1>3. RowInv([d EXCEPT !.void[p] = IF @ = 0 THEN 1 ELSE @], in)
  BY <1>1, <1>2, VoidRow
<1>4. RowInv([d EXCEPT !.alert = @ \cup {p}], in)
  BY AlertRow
<1> QED BY <1>3, <1>4 DEF _late_success_on_dead_payment

\* What the provider reports, stale or fresh, is applied without breaking the row invariant,
\* provided that what it reports collected is collected.
LEMMA ApplyRow ==
  ASSUME NEW d, NEW in, RowInv(d, in), NEW p \in Pay, NEW v \in View, NEW os \in OrderStatus,
         NEW expected \in Amounts \ {0}, has_room(d, p, v, os),
         v.st = "PAID" => in[p] = v /\ v.rc # 0
  PROVE  RowInv(apply_provider_state(d, p, v, os, expected), in)
<1> DEFINE e == [d EXCEPT !.pid[p] = TRUE]
           r == apply_provider_state(d, p, v, os, expected)
           before == d.pay[p]
<1>1. RowInv(e, in) /\ e.pay = d.pay
  BY PidRow DEF RowInv
<1>2. Unused(e) = Unused(d)
  BY <1>1 DEF Unused
<1>3. v.st \in ProviderStatus /\ v.rc \in Amounts
  BY DEF View
<1> HIDE DEF e
<1>4. CASE v.st = before
  <2>1. r = e
    BY <1>4 DEF apply_provider_state, e
  <2> QED BY <1>1, <2>1
<1>5. CASE v.st # before /\ v.st = "AUTHORIZED" /\ before \in CANCELLABLE
  <2>1. r = move(e, p, "AUTHORIZED")
    BY <1>5 DEF apply_provider_state, e
  <2> QED BY <1>1, <1>5, <2>1, MoveRow
<1>6. CASE v.st # before /\ v.st = "PAID" /\ before \in CANCELLABLE
  <2>1. r = mark_captured(e, p, v.rc, expected)
    BY <1>6 DEF apply_provider_state, e
  <2> QED BY <1>1, <1>3, <1>6, <2>1, CapturedRow DEF RowInv
<1>7. CASE v.st # before /\ v.st = "REQUIRES_ACTION" /\ before = "PENDING"
  <2>1. r = move(e, p, "REQUIRES_ACTION")
    BY <1>7 DEF apply_provider_state, e
  <2> QED BY <1>1, <1>7, <2>1, MoveRow
<1>8. CASE v.st # before /\ v.st = "PROCESSING" /\ before \in {"PENDING", "REQUIRES_ACTION"}
  <2>1. r = move(e, p, "PROCESSING")
    BY <1>8 DEF apply_provider_state, e
  <2> QED BY <1>1, <1>8, <2>1, MoveRow
<1>9. CASE v.st # before /\ v.st = "FAILED" /\ before \in CANCELLABLE
  <2>1. r = mark_failed(e, p, os)
    BY <1>9 DEF apply_provider_state, e
  <2> QED BY <1>1, <1>2, <1>9, <2>1, FailedRow DEF has_room
<1>10. CASE v.st # before /\ v.st = "CANCELLED" /\ before \in CANCELLABLE
  <2>1. r = _cancelled_by_provider(e, p, os)
    BY <1>10 DEF apply_provider_state, e
  <2> QED BY <1>1, <1>2, <1>10, <2>1, ExpiredRow DEF has_room
<1>11. CASE v.st # before /\ v.st \in {"AUTHORIZED", "PAID"} /\ before \in {"FAILED", "CANCELLED"}
  <2>1. r = _late_success_on_dead_payment(e, p, v)
    BY <1>11 DEF apply_provider_state, e
  <2> QED BY <1>1, <2>1, LateRow
<1>12. CASE /\ v.st # before
            /\ ~(v.st \in {"AUTHORIZED", "PAID", "FAILED", "CANCELLED"} /\ before \in CANCELLABLE)
            /\ ~(v.st = "REQUIRES_ACTION" /\ before = "PENDING")
            /\ ~(v.st = "PROCESSING" /\ before \in {"PENDING", "REQUIRES_ACTION"})
            /\ ~(v.st \in {"AUTHORIZED", "PAID"} /\ before \in {"FAILED", "CANCELLED"})
  <2>1. r = e
    BY <1>12 DEF apply_provider_state, e
  <2> QED BY <1>1, <2>1
<1> QED BY <1>4, <1>5, <1>6, <1>7, <1>8, <1>9, <1>10, <1>11, <1>12

\* A capture just made makes any order it is booked under reviewable.
LEMMA ApplyCaptureRow ==
  ASSUME NEW d, NEW in, Core(d, in), NEW p \in Pay, NEW v \in View, NEW os,
         NEW expected \in Amounts \ {0}, d.pay[p] \in CANCELLABLE,
         v.st = "PAID", in[p] = v, v.rc # 0
  PROVE  RowInv(apply_provider_state(d, p, v, os, expected), in)
<1> DEFINE e == [d EXCEPT !.pid[p] = TRUE]
<1>1. Core(e, in) /\ e.pay = d.pay
  BY PidRow
<1>2. v.rc \in Amounts
  BY DEF View
<1> HIDE DEF e
<1>3. apply_provider_state(d, p, v, os, expected) = mark_captured(e, p, v.rc, expected)
  BY DEF apply_provider_state, e
<1> QED BY <1>1, <1>2, <1>3, CapturedRow

\* cancel_for_order closes an open payment and may queue its void.
LEMMA CancelRow ==
  ASSUME NEW d, NEW in, RowInv(d, in), NEW p \in Pay \cup {NoPay}, NEW ok \in BOOLEAN
  PROVE  RowInv(cancel_for_order(d, p, ok), in)
<1>1. CASE ~voids(d, p)
  BY <1>1 DEF cancel_for_order
<1>2. CASE voids(d, p)
  <2> DEFINE e == move(d, p, "CANCELLED")
             f == [e EXCEPT !.departed = FALSE]
             k == IF d.pid[p] /\ ~ok THEN 1 ELSE d.void[p]
  <2>1. p \in Pay /\ d.pay[p] \in CANCELLABLE
    BY <1>2 DEF voids
  <2>2. RowInv(e, in)
    BY <2>1, MoveRow
  <2>3. RowInv(f, in)
    BY <2>2, DepartedRow
  <2>4. k \in 0..(MaxVoidAttempts + 1)
    BY <2>1, BoundAssumption DEF RowInv, Core, Row
  <2>5. cancel_for_order(d, p, ok) = [f EXCEPT !.void[p] = k]
    BY <1>2, <2>1 DEF cancel_for_order, move, RowInv, Core, Row
  <2> HIDE DEF e, f, k
  <2> QED BY <2>1, <2>3, <2>4, <2>5, VoidRow
<1> QED BY <1>1, <1>2

\* mark_departed touches nothing the invariant reads.
LEMMA MarkDepartedRow ==
  ASSUME NEW d, NEW in, RowInv(d, in), NEW p
  PROVE  RowInv(mark_departed(d, p), in)
BY DepartedRow DEF mark_departed

\* A status change on its own, and under a payment already collected.
LEMMA TransitionCore ==
  ASSUME NEW d, NEW in, Core(d, in), NEW s \in OrderStatus \ {"COMPLETED"}
  PROVE  Core(transition(d, s), in) /\ transition(d, s).pay = d.pay /\ transition(d, s).status = s
BY SMTT(30) DEF transition, Row, Core, OneLive, PaidIsBooked, NoneMissed, Booked

\* An order with a collected payment may be in any status but COMPLETED.
LEMMA RatedRow ==
  ASSUME NEW d, NEW in, RowInv(d, in), NEW s \in Reviewable, NEW p \in Pay, d.pay[p] \in AFTER_CAPTURE
  PROVE  RowInv(transition(d, s), in)
BY TransitionCore DEF RowInv, RatedIsPaid

-------------------------------------------------------------------------------
(* The provider's records only move on, and a collected charge stays so.   *)

Settled(in, in2) == \A p \in Pay : in[p].st = "PAID" => in2[p] = in[p]

\* What holds of the rows and of the worker's view survives a step of the provider that keeps collected charges.
LEMMA SettledKeeps ==
  ASSUME NEW in, NEW in2, Settled(in, in2)
  PROVE  /\ \A d : Core(d, in) => Core(d, in2)
         /\ \A d : RowInv(d, in) => RowInv(d, in2)
         /\ \A w : ViewIsTrue(w, in) => ViewIsTrue(w, in2)
<1>1. ASSUME NEW d, Booked(d, in) PROVE Booked(d, in2)
  BY <1>1 DEF Booked, Settled
<1>2. ASSUME NEW w, ViewIsTrue(w, in) PROVE ViewIsTrue(w, in2)
  BY <1>2 DEF ViewIsTrue, Settled
<1> QED BY <1>1, <1>2 DEF Core, RowInv

\* What provider.capture answers, and the record it leaves behind.
LEMMA CaptureIntent ==
  ASSUME IInv, NEW p \in Pay, NEW amount \in Amounts \ {0},
         intent' = [intent EXCEPT ![p] = captured_view(p, amount)]
  PROVE  /\ intent' \in [Pay -> View] /\ Settled(intent, intent') /\ Collected(intent')
         /\ captured_view(p, amount) \in View /\ captured_view(p, amount).st = "PAID"
         /\ captured_view(p, amount).rc # 0
         /\ intent'[p] = captured_view(p, amount)
<1> DEFINE v == captured_view(p, amount)
<1>1. v \in View /\ v.st = "PAID" /\ v.rc # 0
  BY DEF captured_view, View, IInv, TypeOK, Collected
<1>2. intent[p].st = "PAID" => v = intent[p]
  BY DEF captured_view
<1> HIDE DEF v
<1>3. intent' = [intent EXCEPT ![p] = v]
  BY DEF v
<1>4. \A q \in Pay : intent'[q] = IF q = p THEN v ELSE intent[q]
  BY <1>3 DEF IInv, TypeOK
<1>5. intent' \in [Pay -> View]
  BY <1>1, <1>3 DEF IInv, TypeOK
<1> QED BY <1>1, <1>2, <1>4, <1>5 DEF Settled, Collected, IInv, v

\* A charge that was not collected changes status without being collected.
LEMMA StatusIntent ==
  ASSUME IInv, NEW p \in Pay, intent[p].st # "PAID", NEW s \in ProviderStatus \ {"PAID"},
         intent' = [intent EXCEPT ![p].st = s]
  PROVE  /\ intent' \in [Pay -> View] /\ Settled(intent, intent') /\ Collected(intent')
<1> DEFINE v == [intent[p] EXCEPT !.st = s]
<1>1. v \in View /\ v.st = s
  BY DEF View, IInv, TypeOK
<1>2. intent' = [intent EXCEPT ![p] = v]
  OBVIOUS
<1> HIDE DEF v
<1>3. \A q \in Pay : intent'[q] = IF q = p THEN v ELSE intent[q]
  BY <1>2 DEF IInv, TypeOK
<1>4. intent' \in [Pay -> View]
  BY <1>1, <1>2 DEF IInv, TypeOK
<1> QED BY <1>1, <1>3, <1>4 DEF Settled, Collected, IInv

\* A step that leaves the provider alone.
LEMMA SameIntent ==
  ASSUME IInv, UNCHANGED intent
  PROVE  /\ intent' \in [Pay -> View] /\ Settled(intent, intent') /\ Collected(intent')
BY DEF IInv, TypeOK, Settled, Collected

\* provider.cancel_authorization never undoes a collected charge.
LEMMA CancelIntent ==
  ASSUME IInv, NEW p \in Pay \cup {NoPay}, NEW ok \in BOOLEAN, provider_cancel(p, ok)
  PROVE  /\ intent' \in [Pay -> View] /\ Settled(intent, intent') /\ Collected(intent')
<1>1. CASE UNCHANGED intent
  BY <1>1, SameIntent
<1>2. CASE p # NoPay /\ intent[p].st # "PAID" /\ intent' = [intent EXCEPT ![p].st = "CANCELLED"]
  BY <1>2, StatusIntent
<1> QED BY <1>1, <1>2 DEF provider_cancel, voids

\* The four parts of IInv put together again after a step.
LEMMA Rebuild ==
  ASSUME IInv, intent' \in [Pay -> View], Collected(intent'), RowInv(db', intent'),
         panel' \subseteq Pay, otx' \in Tx, wk' \in Job, ViewIsTrue(wk', intent')
  PROVE  IInv'
BY DEF IInv, TypeOK, RowInv, Core

\* The payment a request holds is a payment of the order, and live.
LEMMA HeldLive ==
  ASSUME IInv
  PROVE  /\ Held \in Pay \cup {NoPay}
         /\ Held # NoPay => Held \in Pay /\ db.pay[Held] \in LIVE
         /\ Again \in Pay \cup {NoPay}
<1>1. otx.snap \in Pay \cup {NoPay}
  BY DEF IInv, TypeOK, Tx
<1>2. Again \in Pay \cup {NoPay}
  BY ActivePayment DEF Again, Live
<1> QED BY <1>1, <1>2 DEF Held, still_live

\* No request in flight is a state of otx.
LEMMA NoTxType == NoTx \in Tx
BY DEF NoTx, Tx

\* An idle worker is a state of wk and believes nothing.
LEMMA IdleType == Idle \in Job /\ \A in : ViewIsTrue(Idle, in)
BY AmountAssumption DEF Idle, Job, View, NoIntent, ViewIsTrue

\* The quote and the partial amounts are amounts, and not zero.
LEMMA FullPositive == Full \in Amounts \ {0} /\ \A a \in Parts : a \in Amounts \ {0}
BY AmountAssumption

-------------------------------------------------------------------------------
(* One lemma per action, or per group of actions that change the same.     *)

\* A freshly requested order satisfies the invariant.
LEMMA InitInv == Init => IInv
<1> SUFFICES ASSUME Init PROVE IInv
  OBVIOUS
<1>1. db \in Row
  BY AmountAssumption, BoundAssumption DEF Init, Row
<1>2. /\ db.status = "REQUESTED" /\ \A p \in Pay : db.pay[p] = "NONE" /\ db.captured[p] = 0
  BY DEF Init
<1>3. RowInv(db, intent)
  BY <1>1, <1>2 DEF RowInv, Core, OneLive, PaidIsBooked, NoneMissed, Booked, RatedIsPaid
<1>4. intent \in [Pay -> View] /\ Collected(intent)
  BY AmountAssumption DEF Init, View, NoIntent, Collected
<1>5. panel \subseteq Pay /\ otx \in Tx /\ wk \in Job /\ ViewIsTrue(wk, intent)
  BY NoTxType, IdleType DEF Init
<1> QED BY <1>1, <1>3, <1>4, <1>5 DEF IInv, TypeOK

\* A step of the rows alone.
LEMMA RowStep ==
  ASSUME IInv, RowInv(db', intent), UNCHANGED <<intent, panel, otx, wk>>
  PROVE  IInv'
BY Rebuild, SameIntent DEF IInv, TypeOK

\* The requests that lock no payment row: accept, schedule, start, finish, approve, dispute, expiry, review.
LEMMA OrderRequests ==
  ASSUME IInv,
         accept \/ schedule \/ start \/ finish \/ dispute \/ expire_requests \/ review
                \/ approve("C") \/ auto_approve
  PROVE  IInv'
<1>0. RowInv(db, intent) /\ db \in Row
  BY DEF IInv, RowInv, Core
<1>1. CASE accept
  <2> DEFINE e == transition(db, "ACCEPTED")
  <2>1. RowInv(e, intent) /\ e.deals \in 0..MaxDeals /\ e.deals < MaxDeals
    BY <1>0, <1>1, TransitionRow DEF accept, transition, Row
  <2>2. db' = [e EXCEPT !.deals = e.deals + 1]
    BY <1>1 DEF accept
  <2> HIDE DEF e
  <2>3. RowInv(db', intent)
    BY <2>1, <2>2, BoundAssumption
       DEF RowInv, Core, Row, OneLive, PaidIsBooked, NoneMissed, Booked, RatedIsPaid
  <2> QED BY <2>3, <1>1, RowStep DEF accept
<1>2. CASE schedule
  <2> DEFINE e == transition(db, "SCHEDULED")
  <2>1. RowInv(e, intent) /\ e.deals \in 0..MaxDeals /\ Live(e) = Live(db) /\ Unused(e) = Unused(db)
    BY <1>0, TransitionRow DEF transition, Row, Live, Unused
  <2> HIDE DEF e
  <2>2. RowInv(create_for_order(e), intent)
    BY <2>1, <1>2, NewPaymentRow DEF create_for_order, schedule
  <2> QED BY <2>2, <1>2, RowStep DEF schedule, e
<1>3. CASE start
  BY <1>0, <1>3, TransitionRow, RowStep DEF start
<1>4. CASE finish
  BY <1>0, <1>4, TransitionRow, RowStep DEF finish
<1>5. CASE dispute
  BY <1>0, <1>5, TransitionRow, RowStep DEF dispute
<1>6. CASE expire_requests
  BY <1>0, <1>6, TransitionRow, RowStep DEF expire_requests
<1>7. CASE review
  <2>1. PICK p \in Pay : db.pay[p] \in AFTER_CAPTURE
    BY <1>0, <1>7 DEF review, RowInv, RatedIsPaid
  <2> DEFINE e == transition(db, "REVIEWED")
  <2>2. RowInv(e, intent)
    BY <1>0, <2>1, RatedRow
  <2>3. db' = [e EXCEPT !.reviewed = TRUE]
    BY <1>7 DEF review
  <2> HIDE DEF e
  <2>4. RowInv(db', intent)
    BY <2>2, <2>3 DEF RowInv, Core, Row, OneLive, PaidIsBooked, NoneMissed, Booked, RatedIsPaid
  <2> QED BY <2>4, <1>7, RowStep DEF review
<1>8. CASE approve("C") \/ auto_approve
  BY <1>0, <1>8, CompletedRow, RowStep DEF approve, auto_approve
<1> QED BY <1>1, <1>2, <1>3, <1>4, <1>5, <1>6, <1>7, <1>8

\* Taking the order row, or giving it up, changes nothing else.
LEMMA TxStep ==
  ASSUME IInv, otx' \in Tx, UNCHANGED <<db, intent, panel, wk>>
  PROVE  IInv'
BY Rebuild, SameIntent DEF IInv, TypeOK

\* Taking the order row, and rolling back, change no row.
LEMMA BeginInv ==
  ASSUME IInv, Begin \/ rollback
  PROVE  IInv'
<1>1. active_payment(db) \in Pay \cup {NoPay}
  BY ActivePayment DEF Live
<1>2. ASSUME NEW op \in {"set_payment_method", "depart", "refresh", "cancel", "withdraw", "resolve_dispute"},
             NEW arg \in {"NONE", "ON_SITE", "LATE", "RELEASE", "PARTIAL_REFUND", "FULL_REFUND"},
             begin(op, arg)
      PROVE  IInv'
  <2>1. otx' \in Tx
    BY <1>1, <1>2 DEF begin, Tx
  <2> QED BY <1>2, <2>1, TxStep DEF begin
<1>3. scenario_for(db) \in {"NONE", "ON_SITE", "LATE"}
  BY DEF scenario_for
<1>4. CASE rollback
  BY <1>4, NoTxType, TxStep DEF rollback
<1>5. CASE Begin
  <2>1. CASE \E outcome \in {"RELEASE", "PARTIAL_REFUND", "FULL_REFUND"} : begin("resolve_dispute", outcome)
    BY <1>2, <2>1
  <2>2. CASE begin("cancel", scenario_for(db))
    BY <1>2, <1>3, <2>2
  <2>3. CASE begin("set_payment_method", "NONE") \/ begin("depart", "NONE") \/ begin("refresh", "NONE")
             \/ begin("withdraw", "NONE")
    BY <1>2, <2>3
  <2> QED BY <1>5, <2>1, <2>2, <2>3 DEF Begin, release_technician_orders
<1> QED BY <1>4, <1>5

\* A request that commits: it gives the locks up and leaves the worker alone.
LEMMA CommitStep ==
  ASSUME IInv, RowInv(db', intent'), otx' = NoTx, UNCHANGED <<panel, wk>>,
         intent' \in [Pay -> View], Settled(intent, intent'), Collected(intent')
  PROVE  IInv'
BY Rebuild, NoTxType, SettledKeeps DEF IInv, TypeOK

\* Choosing a card preserves the invariant.
LEMMA set_payment_methodInv ==
  ASSUME IInv, set_payment_method
  PROVE  IInv'
<1>1. RowInv(db', intent)
  BY HeldLive, CardRow DEF set_payment_method, IInv
<1>2. UNCHANGED intent
  BY DEF set_payment_method
<1> QED BY <1>1, <1>2, SameIntent, CommitStep DEF set_payment_method, Committing

\* The charge authorize creates, or finds.
LEMMA AuthorizeIntent ==
  ASSUME IInv, NEW p \in Pay, NEW v \in authorize_results(p), intent' = [intent EXCEPT ![p] = v]
  PROVE  /\ intent' \in [Pay -> View] /\ Settled(intent, intent') /\ Collected(intent')
         /\ v \in View /\ (v.st = "PAID" => intent'[p] = v /\ v.rc # 0)
<1>1. CASE intent[p].st # "NONE"
  <2>1. v = intent[p] /\ intent' = intent /\ v \in View
    BY <1>1 DEF authorize_results, IInv, TypeOK
  <2> QED BY <2>1, SameIntent DEF IInv, Collected
<1>2. CASE intent[p].st = "NONE"
  <2>1. v \in View /\ v.st # "PAID"
    BY <1>2, AmountAssumption DEF authorize_results, View
  <2>2. \A q \in Pay : intent'[q] = IF q = p THEN v ELSE intent[q]
    BY DEF IInv, TypeOK
  <2>3. intent' \in [Pay -> View]
    BY <2>1 DEF IInv, TypeOK
  <2> QED BY <1>2, <2>1, <2>2, <2>3 DEF Settled, Collected, IInv
<1> QED BY <1>1, <1>2

\* Departing, with its authorization answered or lost, preserves the invariant.
LEMMA departInv ==
  ASSUME IInv, depart \/ depart_lost
  PROVE  IInv'
<1>1. CASE depart /\ UNCHANGED intent /\ db' = mark_departed(db, Held)
  <2>1. RowInv(db', intent')
    BY <1>1, MarkDepartedRow DEF IInv
  <2> QED BY <1>1, <2>1, SameIntent, CommitStep DEF depart, Committing
<1>2. CASE depart /\ ~(UNCHANGED intent /\ db' = mark_departed(db, Held))
  <2>1. Held \in Pay
    BY <1>2, HeldLive DEF depart
  <2>2. PICK v \in authorize_results(Held) :
          /\ has_room(db, Held, v, "SCHEDULED")
          /\ intent' = [intent EXCEPT ![Held] = v]
          /\ db' = mark_departed(apply_provider_state(db, Held, v, "SCHEDULED", Full), Held)
    BY <1>2 DEF depart
  <2>3. /\ intent' \in [Pay -> View] /\ Settled(intent, intent') /\ Collected(intent')
        /\ v \in View /\ (v.st = "PAID" => intent'[Held] = v /\ v.rc # 0)
    BY <2>1, <2>2, AuthorizeIntent
  <2>4. RowInv(db, intent')
    BY <2>3, SettledKeeps DEF IInv
  <2>5. RowInv(apply_provider_state(db, Held, v, "SCHEDULED", Full), intent')
    BY <2>1, <2>2, <2>3, <2>4, FullPositive, ApplyRow
  <2>6. RowInv(db', intent')
    BY <2>2, <2>5, MarkDepartedRow
  <2> QED BY <1>2, <2>3, <2>6, CommitStep DEF depart, Committing
<1>3. CASE depart_lost
  <2>1. Held \in Pay
    BY <1>3, HeldLive DEF depart_lost
  <2>2. PICK v \in authorize_results(Held) : intent' = [intent EXCEPT ![Held] = v]
    BY <1>3 DEF depart_lost
  <2>3. intent' \in [Pay -> View] /\ Settled(intent, intent') /\ Collected(intent')
    BY <2>1, <2>2, AuthorizeIntent
  <2>4. RowInv(db', intent')
    BY <1>3, <2>3, SettledKeeps DEF IInv, depart_lost
  <2> QED BY <1>3, <2>3, <2>4, CommitStep DEF depart_lost, Committing
<1> QED BY <1>1, <1>2, <1>3

\* A refresh of the live payment from the provider preserves the invariant.
LEMMA refreshInv ==
  ASSUME IInv, refresh
  PROVE  IInv'
<1>1. Held \in Pay
  BY HeldLive DEF refresh
<1>2. intent[Held] \in View /\ db.status \in OrderStatus
  BY <1>1 DEF IInv, TypeOK, Row
<1>3. RowInv(db', intent)
  BY <1>1, <1>2, FullPositive, ApplyRow DEF refresh, IInv, Collected
<1>4. UNCHANGED intent
  BY DEF refresh
<1> QED BY <1>3, <1>4, SameIntent, CommitStep DEF refresh, Committing

\* A withdrawal or a release of the technician preserves the invariant.
LEMMA withdrawInv ==
  ASSUME IInv, withdraw
  PROVE  IInv'
<1>1. PICK ok \in BOOLEAN :
        provider_cancel(Held, ok) /\ db' = transition(cancel_for_order(db, Held, ok), "REQUESTED")
  BY DEF withdraw
<1>2. intent' \in [Pay -> View] /\ Settled(intent, intent') /\ Collected(intent')
  BY <1>1, HeldLive, CancelIntent
<1>3. RowInv(db, intent')
  BY <1>2, SettledKeeps DEF IInv
<1>4. RowInv(cancel_for_order(db, Held, ok), intent')
  BY <1>3, HeldLive, CancelRow
<1>5. RowInv(db', intent')
  BY <1>1, <1>4, TransitionRow
<1> QED BY <1>2, <1>5, CommitStep DEF withdraw, Committing

\* A partial capture that was answered, under whatever status the request gives the order.
LEMMA CapturePartialRow ==
  ASSUME IInv, NEW p \in Pay, NEW amount \in Amounts \ {0}, NEW s \in OrderStatus \ {"COMPLETED"},
         capture_partial(transition(db, s), p, amount)
  PROVE  /\ RowInv(db', intent')
         /\ intent' \in [Pay -> View] /\ Settled(intent, intent') /\ Collected(intent')
<1> DEFINE d == transition(db, s)
           v == captured_view(p, amount)
<1>1. /\ intent' \in [Pay -> View] /\ Settled(intent, intent') /\ Collected(intent')
      /\ v \in View /\ v.st = "PAID" /\ v.rc # 0 /\ intent'[p] = v
  BY CaptureIntent DEF capture_partial
<1>2. Core(db, intent')
  BY <1>1, SettledKeeps DEF IInv, RowInv
<1>3. Core(d, intent')
  BY <1>2, TransitionCore
<1>4. d.pay[p] \in CANCELLABLE /\ db' = apply_provider_state(d, p, v, d.status, amount)
  BY DEF capture_partial
<1> HIDE DEF d, v
<1>5. RowInv(db', intent')
  BY <1>1, <1>3, <1>4, ApplyCaptureRow
<1> QED BY <1>1, <1>5

\* The cancellation that only voids leaves the rows and the provider sound.
LEMMA CancelNoFeeRow ==
  ASSUME IInv, cancel_no_fee
  PROVE  /\ RowInv(db', intent')
         /\ intent' \in [Pay -> View] /\ Settled(intent, intent') /\ Collected(intent')
<1>1. PICK ok \in BOOLEAN :
        provider_cancel(Again, ok) /\ db' = cancel_for_order(transition(db, "CANCELLED"), Again, ok)
  BY DEF cancel_no_fee
<1>2. intent' \in [Pay -> View] /\ Settled(intent, intent') /\ Collected(intent')
  BY <1>1, HeldLive, CancelIntent
<1>3. RowInv(transition(db, "CANCELLED"), intent')
  BY <1>2, SettledKeeps, TransitionRow DEF IInv
<1>4. RowInv(db', intent')
  BY <1>1, <1>3, HeldLive, CancelRow
<1> QED BY <1>2, <1>4

\* A cancellation, with or without the visit fee, answered or lost, preserves the invariant.
LEMMA cancelInv ==
  ASSUME IInv, cancel
  PROVE  IInv'
<1>0. otx' = NoTx /\ UNCHANGED <<panel, wk>>
  BY DEF cancel, Committing
<1>1. CASE cancel_no_fee
  BY <1>0, <1>1, CancelNoFeeRow, CommitStep
<1>2. CASE /\ Held # NoPay
           /\ \E fee \in Parts \cup {Full} : capture_partial(transition(db, "CANCELLED"), Held, fee)
  <2>1. PICK fee \in Parts \cup {Full} : capture_partial(transition(db, "CANCELLED"), Held, fee)
    BY <1>2
  <2>2. fee \in Amounts \ {0} /\ Held \in Pay
    BY <1>2, HeldLive, FullPositive
  <2> QED BY <1>0, <2>1, <2>2, CapturePartialRow, CommitStep
<1>3. CASE Held # NoPay /\ \E fee \in Parts \cup {Full} : capture_partial_lost(Held, fee)
  <2>1. PICK fee \in Parts \cup {Full} : capture_partial_lost(Held, fee)
    BY <1>3
  <2>2. fee \in Amounts \ {0} /\ Held \in Pay
    BY <1>3, HeldLive, FullPositive
  <2>3. intent' \in [Pay -> View] /\ Settled(intent, intent') /\ Collected(intent')
    BY <2>1, <2>2, CaptureIntent DEF capture_partial_lost
  <2>4. RowInv(transition(db, "CANCELLED"), intent')
    BY <2>3, SettledKeeps, TransitionRow DEF IInv
  <2>5. RowInv(db', intent')
    BY <2>1, <2>2, <2>4, CancelRow DEF capture_partial_lost
  <2> QED BY <1>0, <2>3, <2>5, CommitStep
<1>4. CASE /\ Held # NoPay /\ ~capture_answers(Held) /\ UNCHANGED intent
           /\ db' = apply_provider_state(transition(db, "CANCELLED"), Held, intent[Held], "CANCELLED", Full)
  <2>1. Held \in Pay /\ intent[Held] \in View /\ intent[Held].st # "PAID"
    BY <1>4, HeldLive DEF capture_answers, IInv, TypeOK
  <2>2. RowInv(transition(db, "CANCELLED"), intent)
    BY TransitionRow DEF IInv
  <2>3. has_room(transition(db, "CANCELLED"), Held, intent[Held], "CANCELLED")
    BY DEF has_room
  <2>4. RowInv(db', intent)
    BY <1>4, <2>1, <2>2, <2>3, FullPositive, ApplyRow
  <2> QED BY <1>0, <1>4, <2>4, SameIntent, CommitStep
<1> QED BY <1>1, <1>2, <1>3, <1>4 DEF cancel

\* Each outcome of a dispute preserves the invariant.
LEMMA resolve_disputeInv ==
  ASSUME IInv, resolve_dispute
  PROVE  IInv'
<1> DEFINE captured == Held # NoPay /\ db.pay[Held] \in PAYMENT_CONFIRMED
           authorized == Held # NoPay /\ db.pay[Held] = "AUTHORIZED"
<1>0. otx' = NoTx /\ UNCHANGED <<panel, wk>> /\ RowInv(db, intent)
  BY DEF resolve_dispute, Committing, IInv
<1>a. after_payment(db) \in Reviewable \ {"PAID"}
  BY DEF after_payment
<1>1. CASE captured /\ db' = transition(db, after_payment(db)) /\ UNCHANGED intent
  <2>1. Held \in Pay /\ db.pay[Held] \in AFTER_CAPTURE
    BY <1>1, HeldLive
  <2>2. RowInv(db', intent)
    BY <1>0, <1>a, <1>1, <2>1, RatedRow
  <2> QED BY <1>0, <1>1, <2>2, SameIntent, CommitStep
<1>2. CASE db' = _after_completed(transition(db, "COMPLETED")) /\ UNCHANGED intent
  BY <1>0, <1>2, CompletedRow, SameIntent, CommitStep
<1>3. CASE authorized /\ \E amount \in Parts : capture_partial(transition(db, after_payment(db)), Held, amount)
  <2>1. PICK amount \in Parts : capture_partial(transition(db, after_payment(db)), Held, amount)
    BY <1>3
  <2>2. amount \in Amounts \ {0} /\ Held \in Pay /\ after_payment(db) \in OrderStatus \ {"COMPLETED"}
    BY <1>3, <1>a, HeldLive, FullPositive
  <2> QED BY <1>0, <2>1, <2>2, CapturePartialRow, CommitStep
<1>4. CASE \E ok \in BOOLEAN : /\ provider_cancel(Again, ok)
                              /\ db' = transition(cancel_for_order(db, Again, ok), "CANCELLED")
  <2>1. PICK ok \in BOOLEAN :
          provider_cancel(Again, ok) /\ db' = transition(cancel_for_order(db, Again, ok), "CANCELLED")
    BY <1>4
  <2>2. intent' \in [Pay -> View] /\ Settled(intent, intent') /\ Collected(intent')
    BY <2>1, HeldLive, CancelIntent
  <2>3. RowInv(cancel_for_order(db, Again, ok), intent')
    BY <1>0, <2>2, SettledKeeps, HeldLive, CancelRow
  <2>4. RowInv(db', intent')
    BY <2>1, <2>3, TransitionRow
  <2> QED BY <1>0, <2>2, <2>4, CommitStep
<1> QED BY <1>1, <1>2, <1>3, <1>4 DEF resolve_dispute

\* A partial capture whose answer is lost preserves the invariant.
LEMMA resolve_lostInv ==
  ASSUME IInv, resolve_lost
  PROVE  IInv'
<1>1. PICK amount \in Parts : intent' = [intent EXCEPT ![Held] = captured_view(Held, amount)]
  BY DEF resolve_lost
<1>2. Held \in Pay /\ amount \in Amounts \ {0}
  BY HeldLive, FullPositive DEF resolve_lost
<1>3. intent' \in [Pay -> View] /\ Settled(intent, intent') /\ Collected(intent')
  BY <1>1, <1>2, CaptureIntent
<1>4. RowInv(db', intent')
  BY <1>3, SettledKeeps DEF IInv, resolve_lost
<1> QED BY <1>3, <1>4, CommitStep DEF resolve_lost, Committing

\* The worker picks or locks a payment: only its own state changes.
LEMMA JobStep ==
  ASSUME IInv, wk' \in Job, ViewIsTrue(wk', intent), UNCHANGED <<db, intent, panel, otx>>
  PROVE  IInv'
BY Rebuild, SameIntent DEF IInv, TypeOK

\* The steps in which the worker fetches, selects, locks, skips or drops a payment.
LEMMA WorkerPicks ==
  ASSUME IInv,
         \/ webhook_lock \/ job_fails \/ job_skips \/ capture_lock
         \/ \E p \in Pay : webhook_fetch(p) \/ reconcile(p) \/ capture_select(p)
  PROVE  IInv'
<1>0. /\ db.status \in OrderStatus /\ wk \in Job /\ ViewIsTrue(wk, intent)
      /\ \A p \in Pay : intent[p] \in View
  BY DEF IInv, TypeOK, Row
<1>1. CASE job_fails \/ job_skips
  BY <1>1, IdleType, JobStep DEF job_fails, job_skips
<1>2. CASE webhook_lock \/ capture_lock
  <2>1. wk' = [wk EXCEPT !.pc = "locked", !.os = db.status] /\ wk.pc # "idle"
        /\ UNCHANGED <<db, intent, panel, otx>>
    BY <1>2 DEF webhook_lock, capture_lock
  <2>2. wk' \in Job /\ wk'.p = wk.p /\ wk'.view = wk.view
    BY <1>0, <2>1 DEF Job
  <2>3. ViewIsTrue(wk', intent)
    BY <1>0, <2>1, <2>2 DEF ViewIsTrue
  <2> QED BY <2>1, <2>2, <2>3, JobStep
<1>3. CASE \E p \in Pay : webhook_fetch(p) \/ reconcile(p)
  <2>1. PICK p \in Pay : webhook_fetch(p) \/ reconcile(p)
    BY <1>3
  <2>2. /\ wk'.p = p /\ wk'.view = intent[p] /\ wk' \in Job
    BY <1>0, <2>1 DEF webhook_fetch, reconcile, Job
  <2>3. ViewIsTrue(wk', intent)
    BY <2>2 DEF ViewIsTrue
  <2> QED BY <2>1, <2>2, <2>3, JobStep DEF webhook_fetch, reconcile
<1>4. CASE \E p \in Pay : capture_select(p)
  <2>1. PICK p \in Pay : capture_select(p)
    BY <1>4
  <2>2. wk'.p = p /\ wk'.view = NoIntent /\ wk' \in Job
    BY <2>1, IdleType, AmountAssumption DEF capture_select, Job, NoIntent, View
  <2>3. ViewIsTrue(wk', intent)
    BY <2>2 DEF ViewIsTrue, NoIntent
  <2> QED BY <2>1, <2>2, <2>3, JobStep DEF capture_select
<1> QED BY <1>1, <1>2, <1>3, <1>4

\* The worker's transaction ends.
LEMMA JobCommits ==
  ASSUME IInv, RowInv(db', intent'), wk' = Idle, UNCHANGED <<panel, otx>>,
         intent' \in [Pay -> View], Collected(intent')
  PROVE  IInv'
BY Rebuild, IdleType DEF IInv, TypeOK

\* Applying a webhook or a reconciliation, from a view that may be stale, preserves the invariant.
LEMMA applyInv ==
  ASSUME IInv, apply
  PROVE  IInv'
<1>1. /\ wk.p \in Pay /\ wk.view \in View /\ wk.os \in OrderStatus
      /\ wk.view.st = "PAID" => intent[wk.p] = wk.view /\ wk.view.rc # 0
  BY DEF apply, IInv, TypeOK, Job, ViewIsTrue, Collected
<1>2. RowInv(db', intent)
  BY <1>1, FullPositive, ApplyRow DEF apply, IInv
<1>3. UNCHANGED <<intent, panel, otx>> /\ wk' = Idle
  BY DEF apply
<1> QED BY <1>2, <1>3, SameIntent, JobCommits

\* The capture job, answered or not, preserves the invariant.
LEMMA captureInv ==
  ASSUME IInv, capture \/ capture_lost
  PROVE  IInv'
<1> DEFINE v == IF capture_answers(wk.p) THEN captured_view(wk.p, Full) ELSE intent[wk.p]
<1>0. wk.p \in Pay /\ wk.os \in OrderStatus /\ wk' = Idle /\ UNCHANGED <<panel, otx>>
  BY DEF capture, capture_lost, IInv, TypeOK, Job, ViewIsTrue
<1>1. CASE capture_lost
  <2>1. intent' \in [Pay -> View] /\ Settled(intent, intent') /\ Collected(intent')
    BY <1>0, <1>1, FullPositive, CaptureIntent DEF capture_lost
  <2>2. RowInv(db', intent')
    BY <1>1, <2>1, SettledKeeps DEF IInv, capture_lost
  <2> QED BY <1>0, <2>1, <2>2, JobCommits
<1>2. CASE capture
  <2>0. /\ has_room(db, wk.p, v, wk.os) /\ intent' = [intent EXCEPT ![wk.p] = v]
        /\ db' = apply_provider_state(db, wk.p, v, wk.os, Full)
    BY <1>2 DEF capture
  <2>1. /\ intent' \in [Pay -> View] /\ Settled(intent, intent') /\ Collected(intent')
        /\ v \in View /\ (v.st = "PAID" => intent'[wk.p] = v /\ v.rc # 0)
    <3>1. CASE capture_answers(wk.p)
      BY <1>0, <2>0, <3>1, FullPositive, CaptureIntent
    <3>2. CASE ~capture_answers(wk.p)
      <4>1. v = intent[wk.p] /\ intent' = intent /\ v \in View /\ v.st # "PAID"
        BY <1>0, <2>0, <3>2 DEF capture_answers, IInv, TypeOK
      <4> QED BY <4>1, SameIntent
    <3> QED BY <3>1, <3>2
  <2>2. RowInv(db, intent')
    BY <2>1, SettledKeeps DEF IInv
  <2>3. RowInv(db', intent')
    <3>1. PICK u : u = v
      OBVIOUS
    <3>2. /\ u \in View /\ (u.st = "PAID" => intent'[wk.p] = u /\ u.rc # 0)
          /\ has_room(db, wk.p, u, wk.os) /\ db' = apply_provider_state(db, wk.p, u, wk.os, Full)
      BY <2>0, <2>1, <3>1
    <3> QED BY <1>0, <2>2, <3>2, FullPositive, ApplyRow
  <2> QED BY <1>0, <2>1, <2>3, JobCommits
<1> QED BY <1>1, <1>2

\* Retrying a void preserves the invariant.
LEMMA retry_voidsInv ==
  ASSUME IInv, NEW p \in Pay, retry_voids_ok(p) \/ retry_voids_error(p)
  PROVE  IInv'
<1>0. /\ RowInv(db, intent) /\ db.void[p] \in 0..(MaxVoidAttempts + 1)
      /\ wk \in Job /\ otx \in Tx /\ panel \subseteq Pay /\ ViewIsTrue(wk, intent)
  BY DEF IInv, TypeOK, Row
<1>1. intent' \in [Pay -> View] /\ Settled(intent, intent') /\ Collected(intent')
  <2>1. CASE UNCHANGED intent
    BY <2>1, SameIntent
  <2>2. CASE intent[p].st # "PAID" /\ intent' = [intent EXCEPT ![p].st = "CANCELLED"]
    BY <2>2, StatusIntent
  <2> QED BY <2>1, <2>2 DEF retry_voids_ok, retry_voids_error
<1>2. PICK k \in 0..(MaxVoidAttempts + 1) : db' = [db EXCEPT !.void[p] = k]
  <2>1. CASE retry_voids_ok(p)
    BY <2>1, BoundAssumption DEF retry_voids_ok
  <2>2. CASE retry_voids_error(p)
    <3> DEFINE j == db.void[p] + 1
    <3>1. j \in 0..(MaxVoidAttempts + 1)
      BY <2>2, BoundAssumption DEF retry_voids_error
    <3>2. db' = [db EXCEPT !.void[p] = j]
      BY <2>2 DEF retry_voids_error
    <3> QED BY <3>1, <3>2
  <2> QED BY <2>1, <2>2
<1>3. RowInv(db', intent')
  BY <1>0, <1>1, <1>2, SettledKeeps, VoidRow
<1>4. ViewIsTrue(wk, intent')
  BY <1>0, <1>1, SettledKeeps
<1>5. UNCHANGED <<panel, otx, wk>>
  BY DEF retry_voids_ok, retry_voids_error
<1> QED BY <1>0, <1>1, <1>3, <1>4, <1>5, Rebuild

\* What the bank and the provider's panel do on their own preserves the invariant.
LEMMA ProviderInv ==
  ASSUME IInv, provider_step \/ panel_capture
  PROVE  IInv'
<1>0. /\ RowInv(db, intent) /\ wk \in Job /\ otx \in Tx /\ panel \subseteq Pay
      /\ ViewIsTrue(wk, intent)
  BY DEF IInv, TypeOK
<1>1. intent' \in [Pay -> View] /\ Settled(intent, intent') /\ Collected(intent') /\ panel' \subseteq Pay
  <2>1. CASE provider_step
    <3>1. PICK p \in Pay, s \in ProviderStatus :
            <<intent[p].st, s>> \in provider_moves /\ intent' = [intent EXCEPT ![p].st = s]
      BY <2>1 DEF provider_step
    <3>2. intent[p].st # "PAID" /\ s # "PAID"
      BY <3>1 DEF provider_moves
    <3> QED BY <1>0, <2>1, <3>1, <3>2, StatusIntent DEF provider_step
  <2>2. CASE panel_capture
    <3>1. PICK p \in Pay, amount \in Amounts \ {0} :
            /\ intent[p].st = "AUTHORIZED" /\ intent' = [intent EXCEPT ![p] = [st |-> "PAID", rc |-> amount]]
            /\ panel' = panel \cup {p}
      BY <2>2 DEF panel_capture
    <3>2. captured_view(p, amount) = [st |-> "PAID", rc |-> amount]
      BY <3>1 DEF captured_view
    <3> QED BY <1>0, <3>1, <3>2, CaptureIntent
  <2> QED BY <2>1, <2>2
<1>2. UNCHANGED <<db, otx, wk>>
  BY DEF provider_step, panel_capture
<1> QED BY <1>0, <1>1, <1>2, SettledKeeps, Rebuild

-------------------------------------------------------------------------------
(* The theorems.                                                           *)

\* Every step preserves the invariant.
LEMMA NextInv == IInv /\ [Next]_vars => IInv'
<1> SUFFICES ASSUME IInv, [Next]_vars PROVE IInv'
  OBVIOUS
<1>1. CASE Requests
  BY <1>1, OrderRequests, BeginInv, set_payment_methodInv, departInv, refreshInv, withdrawInv,
     cancelInv, resolve_disputeInv, resolve_lostInv DEF Requests
<1>2. CASE Worker
  BY <1>2, WorkerPicks, applyInv, captureInv, retry_voidsInv DEF Worker
<1>3. CASE provider_step \/ panel_capture
  BY <1>3, ProviderInv
<1>4. CASE UNCHANGED vars
  BY <1>4 DEF vars, IInv, TypeOK, RowInv, Core, OneLive, PaidIsBooked, NoneMissed, Booked, RatedIsPaid,
     Collected, ViewIsTrue
<1> QED BY <1>1, <1>2, <1>3, <1>4 DEF Next

\* The inductive invariant holds in every reachable state.
LEMMA Invariance == Spec => []IInv
BY InitInv, NextInv, PTL DEF Spec

\* The rows, the provider's records and the transactions in flight always have their types.
THEOREM TypeCorrect == Spec => []TypeOK
<1>1. IInv => TypeOK
  BY DEF IInv
<1> QED BY <1>1, Invariance, PTL

\* Whatever requests, webhooks, reconciliation and provider do, in any order, an order never
\* has two live SERVICE payments: the unique index never has to refuse a row.
THEOREM NeverTwoLive == Spec => []OneLivePayment
<1>1. IInv => OneLivePayment
  BY DEF IInv, RowInv, Core, OneLive, OneLivePayment, Live
<1> QED BY <1>1, Invariance, PTL

\* Money is booked only when the provider collected it and for that amount, or with the alert.
THEOREM BookedCollected == Spec => []BookedIsCollected
<1>1. IInv => BookedIsCollected
  BY DEF IInv, RowInv, Core, Booked, BookedIsCollected
<1> QED BY <1>1, Invariance, PTL

\* An order the client may rate has a payment collected and booked.
THEOREM ReviewablePaid == Spec => []ReviewableIsPaid
<1>1. IInv => ReviewableIsPaid
  BY DEF IInv, RowInv, Core, RatedIsPaid, PaidIsBooked, ReviewableIsPaid
<1> QED BY <1>1, Invariance, PTL

\* The unlocked read of _after_completed never leaves an approved order waiting for a capture
\* that has already happened.
THEOREM CaptureNotMissed == Spec => []NoMissedCapture
<1>1. IInv => NoMissedCapture
  BY DEF IInv, RowInv, Core, NoneMissed, NoMissedCapture, Live
<1> QED BY <1>1, Invariance, PTL

-------------------------------------------------------------------------------
(* What applying the provider's state does to the rows, exactly.           *)

takes(before, st) ==
  \/ before \in CANCELLABLE /\ st \in {"AUTHORIZED", "PAID", "FAILED", "CANCELLED"}
  \/ before = "PENDING" /\ st = "REQUIRES_ACTION"
  \/ before \in {"PENDING", "REQUIRES_ACTION"} /\ st = "PROCESSING"
replaces(d, p, st, os) == os = "SCHEDULED" /\ d.pay[p] \in CANCELLABLE /\ st \in {"FAILED", "CANCELLED"}

\* The order moves on or fails, the payment takes the provider's status, and a payment that dies
\* under a scheduled order leaves a replacement with its quote.
Applied(d, e, p, st, os) ==
  /\ e.deals = d.deals
  /\ \/ e.status = d.status
     \/ e.status = "READY_FOR_REVIEW" /\ d.status = "COMPLETED" /\ st = "PAID" /\ d.pay[p] \in CANCELLABLE
     \/ e.status = "FAILED" /\ os = "COMPLETED" /\ st = "FAILED" /\ d.pay[p] \in CANCELLABLE
  /\ e.pay[p] = (IF takes(d.pay[p], st) THEN st ELSE d.pay[p]) /\ e.quote[p] = d.quote[p]
  /\ \A q \in Pay \ {p} :
       \/ e.pay[q] = d.pay[q] /\ e.quote[q] = d.quote[q]
       \/ replaces(d, p, st, os) /\ d.pay[q] = "NONE" /\ e.pay[q] = "PENDING" /\ e.quote[q] = d.quote[p]

\* A status change of the order.
LEMMA TransitionEffect ==
  ASSUME NEW d \in Row, NEW s \in OrderStatus
  PROVE  /\ transition(d, s) \in Row /\ transition(d, s).status = s /\ transition(d, s).pay = d.pay
         /\ transition(d, s).quote = d.quote /\ transition(d, s).deals = d.deals
BY DEF transition, Row

\* A new payment takes an unused row.
LEMMA NewEffect ==
  ASSUME NEW d \in Row, NEW deal \in 0..MaxDeals, Unused(d) # {}
  PROVE  /\ new_payment(d, deal).status = d.status /\ new_payment(d, deal).deals = d.deals
         /\ \A q \in Pay : \/ /\ new_payment(d, deal).pay[q] = d.pay[q]
                              /\ new_payment(d, deal).quote[q] = d.quote[q]
                           \/ /\ d.pay[q] = "NONE" /\ new_payment(d, deal).pay[q] = "PENDING"
                              /\ new_payment(d, deal).quote[q] = deal
<1> DEFINE n == CHOOSE q \in Unused(d) : TRUE
           e == [d EXCEPT !.pay[n] = "PENDING", !.quote[n] = deal]
<1>1. n \in Pay /\ d.pay[n] = "NONE"
  BY DEF Unused
<1>2. new_payment(d, deal) = e
  BY DEF new_payment
<1> HIDE DEF n
<1>3. /\ e.status = d.status /\ e.deals = d.deals
      /\ \A q \in Pay : /\ e.pay[q] = IF q = n THEN "PENDING" ELSE d.pay[q]
                        /\ e.quote[q] = IF q = n THEN deal ELSE d.quote[q]
  BY <1>1 DEF Row
<1> QED BY <1>1, <1>2, <1>3

\* The replacement has the quote of the payment that died.
LEMMA ReplaceEffect ==
  ASSUME NEW d \in Row, NEW p \in Pay, d.pay[p] \in CANCELLABLE, NEW s \in {"FAILED", "CANCELLED"},
         Unused(d) # {}, NEW e, e = [_replacement(move(d, p, s), p) EXCEPT !.departed = FALSE]
  PROVE  Applied(d, e, p, s, "SCHEDULED")
<1> DEFINE f == move(d, p, s)
           g == new_payment(f, f.quote[p])
<1>1. /\ f \in Row /\ f.status = d.status /\ f.deals = d.deals /\ f.quote = d.quote
      /\ \A q \in Pay : f.pay[q] = IF q = p THEN s ELSE d.pay[q]
  BY DEF move, Row
<1>2. f.quote[p] \in 0..MaxDeals /\ Unused(f) # {}
  BY <1>1 DEF Row, Unused
<1>3. e = [g EXCEPT !.departed = FALSE]
  BY DEF _replacement
<1> HIDE DEF f
<1>4. /\ g.status = f.status /\ g.deals = f.deals
      /\ \A q \in Pay : \/ g.pay[q] = f.pay[q] /\ g.quote[q] = f.quote[q]
                        \/ f.pay[q] = "NONE" /\ g.pay[q] = "PENDING" /\ g.quote[q] = f.quote[p]
  BY <1>1, <1>2, NewEffect
<1>5. e.status = g.status /\ e.deals = g.deals /\ e.pay = g.pay /\ e.quote = g.quote
  BY <1>1, <1>3 DEF new_payment, Row
<1> HIDE DEF g
<1> QED BY <1>1, <1>4, <1>5 DEF Applied, takes, replaces

\* Booking a capture.
LEMMA CapturedEffect ==
  ASSUME NEW d \in Row, NEW p \in Pay, NEW received, NEW expected, NEW e,
         e = mark_captured(d, p, received, expected)
  PROVE  /\ e.deals = d.deals /\ e.quote = d.quote
         /\ e.status = (IF d.status = "COMPLETED" THEN "READY_FOR_REVIEW" ELSE d.status)
         /\ \A q \in Pay : e.pay[q] = IF q = p THEN "PAID" ELSE d.pay[q]
<1> DEFINE asQuoted  == received \in {0, expected}
           recompute == expected = Full /\ received \in Parts
           booked    == IF asQuoted \/ ~recompute THEN expected ELSE received
           f == [move(d, p, "PAID") EXCEPT !.captured[p] = booked,
                                           !.mismatch = IF asQuoted \/ recompute THEN @ ELSE @ \cup {p}]
<1>1. e = on_payment_captured(f)
  BY DEF mark_captured
<1> HIDE DEF booked
<1>2. /\ f.status = d.status /\ f.deals = d.deals /\ f.quote = d.quote
      /\ f.pay = [d.pay EXCEPT ![p] = "PAID"] /\ d.pay \in [Pay -> PaymentStatus \cup {"NONE"}]
  BY DEF move, Row
<1>3. f.status = "COMPLETED" => /\ transition(f, "READY_FOR_REVIEW").status = "READY_FOR_REVIEW"
                                /\ transition(f, "READY_FOR_REVIEW").pay = f.pay
                                /\ transition(f, "READY_FOR_REVIEW").quote = f.quote
                                /\ transition(f, "READY_FOR_REVIEW").deals = f.deals
  BY DEF transition, move, Row
<1> HIDE DEF f
<1> QED BY <1>1, <1>2, <1>3 DEF on_payment_captured

\* apply_provider_state does that, for any view of the provider and any order status read before.
LEMMA ApplyEffect ==
  ASSUME NEW d \in Row, NEW p \in Pay, NEW v \in View, NEW os \in OrderStatus, NEW expected,
         has_room(d, p, v, os), NEW r, r = apply_provider_state(d, p, v, os, expected)
  PROVE  Applied(d, r, p, v.st, os)
<1> DEFINE e == [d EXCEPT !.pid[p] = TRUE]
           before == d.pay[p]
<1>1. /\ e \in Row /\ e.pay = d.pay /\ e.quote = d.quote /\ e.status = d.status /\ e.deals = d.deals
  BY DEF Row
<1>2. Unused(e) = Unused(d) /\ v.st \in ProviderStatus /\ before \in PaymentStatus \cup {"NONE"}
  BY <1>1 DEF Unused, View, Row
<1>3. \A f, s : Applied(e, f, p, s, os) => Applied(d, f, p, s, os)
  BY <1>1 DEF Applied, replaces
<1> HIDE DEF e
<1>4. CASE r = e /\ (v.st = before \/ ~takes(before, v.st))
  BY <1>1, <1>4 DEF Applied
<1>5. CASE r = move(e, p, v.st) /\ v.st \in {"AUTHORIZED", "REQUIRES_ACTION", "PROCESSING"} /\ takes(before, v.st)
  <2>1. /\ r.status = e.status /\ r.deals = e.deals /\ r.quote = e.quote
        /\ \A q \in Pay : r.pay[q] = IF q = p THEN v.st ELSE e.pay[q]
    BY <1>1, <1>5 DEF move, Row
  <2> QED BY <1>1, <1>5, <2>1 DEF Applied
<1>6. CASE r = mark_captured(e, p, v.rc, expected) /\ v.st = "PAID" /\ before \in CANCELLABLE
  BY <1>1, <1>6, CapturedEffect DEF Applied, takes
<1>7. CASE r = mark_failed(e, p, os) /\ v.st = "FAILED" /\ before \in CANCELLABLE
  <2>1. CASE os = "SCHEDULED"
    <3>1. r = [_replacement(move(e, p, "FAILED"), p) EXCEPT !.departed = FALSE]
      BY <1>7, <2>1 DEF mark_failed
    <3>2. Applied(e, r, p, "FAILED", "SCHEDULED")
      BY <1>1, <1>2, <1>7, <2>1, <3>1, ReplaceEffect DEF has_room
    <3> QED BY <1>3, <1>7, <2>1, <3>2
  <2>2. CASE os # "SCHEDULED"
    <3> DEFINE f == move(e, p, "FAILED")
    <3>1. /\ f \in Row /\ f.status = e.status /\ f.deals = e.deals /\ f.quote = e.quote
          /\ \A q \in Pay : f.pay[q] = IF q = p THEN "FAILED" ELSE e.pay[q]
      BY <1>1 DEF move, Row
    <3>2. r = on_payment_failed(f, os)
      BY <1>7, <2>2 DEF mark_failed
    <3> HIDE DEF f
    <3>3. CASE os = "COMPLETED"
      <4>1. r = transition(f, "FAILED")
        BY <3>2, <3>3 DEF on_payment_failed
      <4>2. r.status = "FAILED" /\ r.pay = f.pay /\ r.quote = f.quote /\ r.deals = f.deals
        BY <3>1, <4>1, TransitionEffect
      <4> QED BY <1>1, <1>7, <3>1, <3>3, <4>2 DEF Applied, takes
    <3>4. CASE os # "COMPLETED"
      <4>1. r = f
        BY <2>2, <3>2, <3>4 DEF on_payment_failed
      <4> QED BY <1>1, <1>7, <3>1, <4>1 DEF Applied, takes
    <3> QED BY <3>3, <3>4
  <2> QED BY <2>1, <2>2
<1>8. CASE r = _cancelled_by_provider(e, p, os) /\ v.st = "CANCELLED" /\ before \in CANCELLABLE
  <2>1. CASE os = "SCHEDULED"
    <3>1. r = [_replacement(move(e, p, "CANCELLED"), p) EXCEPT !.departed = FALSE]
      BY <1>8, <2>1 DEF _cancelled_by_provider
    <3>2. Applied(e, r, p, "CANCELLED", "SCHEDULED")
      BY <1>1, <1>2, <1>8, <2>1, <3>1, ReplaceEffect DEF has_room
    <3> QED BY <1>3, <1>8, <2>1, <3>2
  <2>2. CASE os # "SCHEDULED"
    <3>1. r = move(e, p, "CANCELLED")
      BY <1>8, <2>2 DEF _cancelled_by_provider
    <3>2. /\ r.status = e.status /\ r.deals = e.deals /\ r.quote = e.quote
          /\ \A q \in Pay : r.pay[q] = IF q = p THEN "CANCELLED" ELSE e.pay[q]
      BY <1>1, <3>1 DEF move, Row
    <3> QED BY <1>1, <1>8, <3>2 DEF Applied, takes
  <2> QED BY <2>1, <2>2
<1>9. CASE r = _late_success_on_dead_payment(e, p, v) /\ before \in {"FAILED", "CANCELLED"}
  <2>1. r.status = e.status /\ r.pay = e.pay /\ r.quote = e.quote /\ r.deals = e.deals
    BY <1>1, <1>9 DEF _late_success_on_dead_payment, Row
  <2> QED BY <1>1, <1>9, <2>1 DEF Applied, takes
<1> QED BY <1>2, <1>4, <1>5, <1>6, <1>7, <1>8, <1>9, ZenonT(30) DEF apply_provider_state, takes, e

-------------------------------------------------------------------------------
(* One charge per order, and only when it is due.                          *)

\* Once past these statuses an order never authorizes a new charge; in those of Due the worker
\* captures.  A charge not yet authorized is Early; one of Kept has been authorized.
Late == {"COMPLETED", "PAID", "READY_FOR_REVIEW", "REVIEWED", "DISPUTED", "REFUNDED", "CANCELLED", "FAILED"}
Due == {"COMPLETED", "DISPUTED"}
Early == {"NONE", "PENDING", "REQUIRES_ACTION", "PROCESSING"}
Kept == {"AUTHORIZED", "PAID", "CANCELLED"}

\* The app, and nobody at the provider's panel, collected the charge.
AppPaid(p) == p \notin panel /\ intent[p].st = "PAID"

\* The order keeps the status that let the request in flight begin: nobody else writes the row.
OpHolds ==
  /\ otx.op \in {"set_payment_method", "depart"} => db.status = "SCHEDULED"
  /\ otx.op = "withdraw" => db.status \in {"ACCEPTED", "SCHEDULED"}
  /\ otx.op = "cancel" => db.status \in {"REQUESTED", "ACCEPTED", "SCHEDULED"}
  /\ otx.op = "resolve_dispute" => db.status = "DISPUTED"

\* Once the app collected a charge, the order is past the point of new charges and no other
\* payment of it is live.
PaidIsLate ==
  \A q \in Pay : AppPaid(q) => db.status \in Late /\ \A p \in Pay : db.pay[p] \in LIVE => p = q

\* The payment the capture job selected is still due if it is still authorized, and the one it
\* locked is both.
JobHolds ==
  /\ wk.pc = "fetched" => wk.view.st # "NONE"
  /\ wk.pc = "selected" => /\ wk.view.st = "NONE" /\ db.pay[wk.p] \notin Early
                           /\ db.pay[wk.p] = "AUTHORIZED" => db.status \in Due
  /\ wk.pc = "locked" /\ wk.view.st = "NONE" => db.pay[wk.p] = "AUTHORIZED" /\ db.status \in Due

\* The worker never believes scheduled the order of a charge the app collected.
StaleHolds == wk.pc = "locked" /\ wk.os = "SCHEDULED" /\ AppPaid(wk.p) => db.pay[wk.p] \notin CANCELLABLE

\* A payment seen authorized has been authorized: the provider does not go back on it.
AuthKnown ==
  /\ \A p \in Pay : db.pay[p] = "AUTHORIZED" => intent[p].st \in Kept
  /\ wk.pc # "idle" /\ wk.view.st = "AUTHORIZED" => intent[wk.p].st \in Kept

ChargeInv == OpHolds /\ PaidIsLate /\ ChargedOnce /\ JobHolds /\ StaleHolds /\ AuthKnown

KeptStays == \A p \in Pay : intent[p].st \in Kept => intent'[p].st \in Kept

\* No payment becomes authorized again, and an order due stays so while its payment is authorized.
Quiet(d, e) ==
  \A q \in Pay : d.pay[q] \notin Early =>
    /\ e.pay[q] \notin Early
    /\ e.pay[q] = "AUTHORIZED" => d.pay[q] = "AUTHORIZED" /\ (d.status \in Due => e.status \in Due)

LEMMA AppliedPays ==
  ASSUME NEW d \in Row, OneLive(d), NEW p \in Pay, NEW e, NEW st \in ProviderStatus, NEW os, Applied(d, e, p, st, os)
  PROVE  /\ \A q \in Pay : e.pay[q] \in LIVE => d.pay[q] \in LIVE \/ replaces(d, p, st, os)
         /\ \A q \in Pay : e.pay[q] \in CANCELLABLE => d.pay[q] \in CANCELLABLE \/ replaces(d, p, st, os)
         /\ \A q \in Pay : e.pay[q] = "AUTHORIZED" => d.pay[q] = "AUTHORIZED" \/ (q = p /\ st = "AUTHORIZED")
         /\ e.status = d.status \/ e.status \in Late
         /\ Quiet(d, e)
<1>0. \A q \in Pay : d.pay[q] \in PaymentStatus \cup {"NONE"}
  BY DEF Row
<1>1. \A q \in Pay : e.pay[q] \in LIVE => d.pay[q] \in LIVE \/ replaces(d, p, st, os)
  BY <1>0 DEF Applied, takes
<1>2. \A q \in Pay : e.pay[q] \in CANCELLABLE => d.pay[q] \in CANCELLABLE \/ replaces(d, p, st, os)
  BY <1>0 DEF Applied, takes
<1>3. \A q \in Pay : e.pay[q] = "AUTHORIZED" => d.pay[q] = "AUTHORIZED" \/ (q = p /\ st = "AUTHORIZED")
  BY <1>0 DEF Applied, takes
<1>4. e.status = d.status \/ e.status \in Late
  BY DEF Applied, Late
<1>5. ASSUME NEW q \in Pay, d.pay[q] \notin Early
      PROVE  /\ e.pay[q] \notin Early
             /\ e.pay[q] = "AUTHORIZED" => d.pay[q] = "AUTHORIZED" /\ (d.status \in Due => e.status \in Due)
  <2>1. e.pay[q] \notin Early /\ (e.pay[q] = "AUTHORIZED" => d.pay[q] = "AUTHORIZED")
    BY <1>0, <1>5 DEF Applied, takes, Early
  <2>2. ASSUME e.pay[q] = "AUTHORIZED", d.status \in Due PROVE e.status \in Due
    <3>1. CASE e.status = d.status
      BY <2>2, <3>1
    <3>2. CASE e.status # d.status
      <4>1. d.pay[p] \in CANCELLABLE /\ st \in {"PAID", "FAILED"}
        BY <3>2 DEF Applied
      <4>2. e.pay[p] = st
        BY <4>1 DEF Applied, takes
      <4>3. p = q
        BY <2>1, <2>2, <4>1 DEF OneLive
      <4> QED BY <2>2, <4>1, <4>2, <4>3
    <3> QED BY <3>1, <3>2
  <2> QED BY <2>1, <2>2
<1> QED BY <1>1, <1>2, <1>3, <1>4, <1>5 DEF Quiet

\* A charge the app collects now was authorized, so it is the live payment's and the only one.
LEMMA ChargesKeep ==
  ASSUME IInv, ChargeInv,
         \A q \in Pay : AppPaid(q)' => db'.status \in Late /\ (AppPaid(q) \/ db.pay[q] = "AUTHORIZED"),
         \A p, q \in Pay : db'.pay[p] \in LIVE /\ AppPaid(q)' => db.pay[p] \in LIVE
  PROVE  PaidIsLate' /\ ChargedOnce'
<1>1. \A p, q \in Pay : db.pay[p] \in LIVE /\ db.pay[q] \in LIVE => p = q
  BY DEF IInv, RowInv, Core, OneLive
<1>2. \A p, q \in Pay : AppPaid(q) /\ db.pay[p] \in LIVE => p = q
  BY DEF ChargeInv, PaidIsLate
<1>3. \A p, q \in Pay : AppPaid(p) /\ AppPaid(q) => p = q
  BY DEF ChargeInv, ChargedOnce, AppPaid
<1>4. \A p, q \in Pay : AppPaid(p)' /\ AppPaid(q)' => p = q
  BY <1>1, <1>2, <1>3
<1>5. \A p, q \in Pay : AppPaid(q)' /\ db'.pay[p] \in LIVE => p = q
  BY <1>1, <1>2
<1> QED BY <1>4, <1>5 DEF PaidIsLate, ChargedOnce, AppPaid

\* A request that commits.
LEMMA CommitKeeps ==
  ASSUME IInv, ChargeInv, otx' = NoTx, UNCHANGED <<panel, wk>>, KeptStays, Quiet(db, db'),
         ~(wk.pc = "locked" /\ wk.view.st = "NONE"),
         \A q \in Pay : AppPaid(q)' => /\ db'.status \in Late
                                       /\ AppPaid(q) \/ (db.pay[q] = "AUTHORIZED" /\ PaymentFree(q)),
         \A p, q \in Pay : db'.pay[p] \in LIVE /\ AppPaid(q)' => db.pay[p] \in LIVE,
         \A p, q \in Pay : db'.pay[p] \in CANCELLABLE /\ AppPaid(q)' => db.pay[p] \in CANCELLABLE,
         \A p \in Pay : db'.pay[p] = "AUTHORIZED" => db.pay[p] = "AUTHORIZED" \/ intent'[p].st \in Kept
  PROVE  ChargeInv'
<1>0. wk.pc # "idle" => wk.p \in Pay
  BY DEF IInv, ViewIsTrue
<1>1. PaidIsLate' /\ ChargedOnce'
  BY ChargesKeep
<1>2. OpHolds'
  BY DEF OpHolds, NoTx
<1>3. JobHolds'
  BY <1>0 DEF JobHolds, ChargeInv, Quiet
<1>4. StaleHolds'
  BY <1>0 DEF StaleHolds, ChargeInv, PaymentFree
<1>5. AuthKnown'
  BY <1>0 DEF AuthKnown, ChargeInv, KeptStays
<1> QED BY <1>1, <1>2, <1>3, <1>4, <1>5 DEF ChargeInv

\* A transaction of the worker that ends.
LEMMA JobKeeps ==
  ASSUME IInv, ChargeInv, wk' = Idle, UNCHANGED <<panel, otx>>, KeptStays,
         db'.status = db.status \/ otx.op = "none",
         \A q \in Pay : AppPaid(q)' => db'.status \in Late /\ (AppPaid(q) \/ db.pay[q] = "AUTHORIZED"),
         \A p, q \in Pay : db'.pay[p] \in LIVE /\ AppPaid(q)' => db.pay[p] \in LIVE,
         \A p \in Pay : db'.pay[p] = "AUTHORIZED" => db.pay[p] = "AUTHORIZED" \/ intent'[p].st \in Kept
  PROVE  ChargeInv'
<1>1. PaidIsLate' /\ ChargedOnce'
  BY ChargesKeep
<1>2. OpHolds'
  BY DEF OpHolds, ChargeInv
<1>3. JobHolds' /\ StaleHolds'
  BY DEF JobHolds, StaleHolds, Idle
<1>4. AuthKnown'
  BY DEF AuthKnown, ChargeInv, KeptStays, Idle
<1> QED BY <1>1, <1>2, <1>3, <1>4 DEF ChargeInv

\* A request that takes one step.
LEMMA OneStepKeeps ==
  ASSUME IInv, ChargeInv, UNCHANGED <<intent, panel, otx, wk>>, otx.op = "none", db.status \notin Due,
         db.status \in Late => db'.status \in Late /\ db'.pay = db.pay,
         \A p \in Pay : db'.pay[p] = db.pay[p] \/ (db.pay[p] = "NONE" /\ db'.pay[p] = "PENDING")
  PROVE  ChargeInv'
<1>0. wk.pc # "idle" => wk.p \in Pay
  BY DEF IInv, ViewIsTrue
<1>1. \A q \in Pay : AppPaid(q)' <=> AppPaid(q)
  BY DEF AppPaid
<1>2. \A q \in Pay : AppPaid(q) => db.status \in Late
  BY DEF ChargeInv, PaidIsLate
<1>3. PaidIsLate' /\ ChargedOnce'
  BY <1>1, <1>2, ChargesKeep
<1>4. OpHolds'
  BY DEF OpHolds
<1>5. JobHolds'
  BY <1>0 DEF JobHolds, ChargeInv, Early
<1>6. StaleHolds'
  BY <1>0, <1>1, <1>2 DEF StaleHolds, ChargeInv
<1>7. AuthKnown'
  BY <1>0 DEF AuthKnown, ChargeInv
<1> QED BY <1>3, <1>4, <1>5, <1>6, <1>7 DEF ChargeInv

\* What the table of transitions says of the status a request starts from.
LEMMA MayTransition ==
  ASSUME NEW s
  PROVE  /\ may_transition(s, "ACCEPTED", "T") => s = "REQUESTED"
         /\ may_transition(s, "SCHEDULED", "T") => s = "ACCEPTED"
         /\ may_transition(s, "IN_PROGRESS", "T") => s = "SCHEDULED"
         /\ may_transition(s, "AWAITING_APPROVAL", "T") => s = "IN_PROGRESS"
         /\ may_transition(s, "DISPUTED", "C")
              => s \in {"IN_PROGRESS", "AWAITING_APPROVAL", "PAID", "READY_FOR_REVIEW", "REVIEWED"}
         /\ may_transition(s, "CANCELLED", "C") => s \in {"REQUESTED", "ACCEPTED", "SCHEDULED"}
         /\ may_transition(s, "REQUESTED", "T") \/ may_transition(s, "REQUESTED", "S")
              => s \in {"ACCEPTED", "SCHEDULED"}
BY DEF may_transition, ALLOWED_TRANSITIONS

\* Approved work, whatever becomes of the order.
LEMMA CompletedEffect ==
  ASSUME NEW d \in Row, NEW e, e = _after_completed(transition(d, "COMPLETED"))
  PROVE  /\ e.pay = d.pay /\ e.quote = d.quote /\ e.deals = d.deals
         /\ \/ e.status = "COMPLETED"
            \/ e.status = "READY_FOR_REVIEW" /\ \E p \in Pay : d.pay[p] \in PAYMENT_CONFIRMED
<1> DEFINE f == transition(d, "COMPLETED")
<1>1. f \in Row /\ f.status = "COMPLETED" /\ f.pay = d.pay /\ f.quote = d.quote /\ f.deals = d.deals
  BY TransitionEffect
<1>2. active_payment(f) \in Live(f) \cup {NoPay}
  BY ActivePayment
<1> HIDE DEF f
<1>3. CASE e = f
  BY <1>1, <1>3
<1>4. CASE e = transition(f, "READY_FOR_REVIEW") /\ active_payment(f) # NoPay
           /\ f.pay[active_payment(f)] \in PAYMENT_CONFIRMED
  <2>1. e.status = "READY_FOR_REVIEW" /\ e.pay = f.pay /\ e.quote = f.quote /\ e.deals = f.deals
    BY <1>1, <1>4, TransitionEffect
  <2>2. active_payment(f) \in Pay
    BY <1>2, <1>4 DEF Live
  <2> QED BY <1>1, <1>4, <2>1, <2>2
<1> QED BY <1>1, <1>3, <1>4 DEF _after_completed, on_payment_captured, f

\* The requests that lock no payment row charge nothing and start where nothing is due.
LEMMA OrderRequestsCharge ==
  ASSUME IInv, ChargeInv,
         accept \/ schedule \/ start \/ finish \/ dispute \/ expire_requests \/ review
                \/ approve("C") \/ auto_approve
  PROVE  ChargeInv'
<1>0. db \in Row
  BY DEF IInv, TypeOK
<1>1. CASE accept
  <2>1. db.status = "REQUESTED" /\ db'.pay = db.pay
    BY <1>0, <1>1, MayTransition DEF accept, transition, Row
  <2> QED BY <1>1, <2>1, OneStepKeeps DEF accept, OrderFree, Late, Due
<1>2. CASE schedule
  <2> DEFINE e == transition(db, "SCHEDULED")
  <2>1. db.status = "ACCEPTED" /\ e \in Row /\ e.pay = db.pay /\ e.deals \in 0..MaxDeals
    BY <1>0, <1>2, MayTransition, TransitionEffect DEF schedule, Row
  <2>2. db' = create_for_order(e) /\ Live(e) = Live(db) /\ Unused(e) = Unused(db)
    BY <1>2, <2>1 DEF schedule, Live, Unused
  <2> HIDE DEF e
  <2>3. \A p \in Pay : db'.pay[p] = db.pay[p] \/ (db.pay[p] = "NONE" /\ db'.pay[p] = "PENDING")
    <3>1. CASE Live(e) # {}
      BY <2>1, <2>2, <3>1 DEF create_for_order
    <3>2. CASE Live(e) = {}
      <4>1. Unused(e) # {} /\ db' = new_payment(e, e.deals)
        BY <1>2, <2>2, <3>2 DEF create_for_order, schedule
      <4> QED BY <2>1, <4>1, NewEffect
    <3> QED BY <3>1, <3>2
  <2> QED BY <1>2, <2>1, <2>3, OneStepKeeps DEF schedule, OrderFree, Late, Due
<1>3. CASE start \/ finish \/ dispute \/ expire_requests
  <2>1. PICK s \in OrderStatus : db' = transition(db, s) /\ (db.status \in Late => s = "DISPUTED")
                                 /\ db.status \notin Due
    BY <1>3, MayTransition DEF start, finish, dispute, expire_requests, Late, Due
  <2>2. db'.pay = db.pay /\ db'.status = s
    BY <1>0, <2>1, TransitionEffect
  <2> QED BY <1>3, <2>1, <2>2, OneStepKeeps DEF start, finish, dispute, expire_requests, OrderFree, Late
<1>4. CASE review
  <2>1. db.status = "READY_FOR_REVIEW" /\ db'.pay = db.pay /\ db'.status = "REVIEWED"
    BY <1>0, <1>4 DEF review, transition, Row
  <2> QED BY <1>4, <2>1, OneStepKeeps DEF review, OrderFree, Late, Due
<1>5. CASE approve("C") \/ auto_approve
  <2>1. db.status = "AWAITING_APPROVAL" /\ db'.pay = db.pay
    BY <1>0, <1>5, CompletedEffect DEF approve, auto_approve
  <2> QED BY <1>5, <2>1, OneStepKeeps DEF approve, auto_approve, OrderFree, Late, Due
<1> QED BY <1>1, <1>2, <1>3, <1>4, <1>5

\* A request takes the order row in a status of its own, and may give it up.
LEMMA BeginCharge ==
  ASSUME IInv, ChargeInv, Begin \/ rollback
  PROVE  ChargeInv'
<1>1. UNCHANGED <<db, intent, panel, wk>>
  BY DEF Begin, begin, rollback, release_technician_orders
<1>2. OpHolds'
  <2>1. CASE rollback
    BY <2>1 DEF rollback, NoTx, OpHolds
  <2>2. CASE Begin
    <3>1. otx'.op \in {"set_payment_method", "depart"} => db.status = "SCHEDULED"
      BY <2>2 DEF Begin, begin, release_technician_orders
    <3>2. otx'.op = "withdraw" => db.status \in {"ACCEPTED", "SCHEDULED"}
      BY <2>2, MayTransition DEF Begin, begin, release_technician_orders
    <3>3. otx'.op = "cancel" => db.status \in {"REQUESTED", "ACCEPTED", "SCHEDULED"}
      BY <2>2, MayTransition DEF Begin, begin, release_technician_orders
    <3>4. otx'.op = "resolve_dispute" => db.status = "DISPUTED"
      BY <2>2 DEF Begin, begin, release_technician_orders
    <3> QED BY <1>1, <3>1, <3>2, <3>3, <3>4 DEF OpHolds
  <2> QED BY <2>1, <2>2
<1> QED BY <1>1, <1>2 DEF ChargeInv, PaidIsLate, ChargedOnce, JobHolds, StaleHolds, AuthKnown, AppPaid

\* The worker fetches, selects, locks, skips or drops a payment.
LEMMA WorkerPicksCharge ==
  ASSUME IInv, ChargeInv,
         \/ webhook_lock \/ job_fails \/ job_skips \/ capture_lock
         \/ \E p \in Pay : webhook_fetch(p) \/ reconcile(p) \/ capture_select(p)
  PROVE  ChargeInv'
<1>0. UNCHANGED <<db, intent, panel, otx>> /\ wk \in Job /\ ViewIsTrue(wk, intent)
  BY DEF webhook_lock, job_fails, job_skips, capture_lock, webhook_fetch, reconcile, capture_select, IInv, TypeOK
<1>1. OpHolds' /\ PaidIsLate' /\ ChargedOnce'
  BY <1>0 DEF ChargeInv, OpHolds, PaidIsLate, ChargedOnce, AppPaid
<1>2. \A p \in Pay : db'.pay[p] = "AUTHORIZED" => intent'[p].st \in Kept
  BY <1>0 DEF ChargeInv, AuthKnown
<1>3. \A p \in Pay : AppPaid(p)' => db.status # "SCHEDULED"
  BY <1>0 DEF ChargeInv, PaidIsLate, AppPaid, Late
<1>4. CASE job_fails \/ job_skips
  BY <1>0, <1>1, <1>2, <1>4 DEF job_fails, job_skips, Idle, ChargeInv, JobHolds, StaleHolds, AuthKnown
<1>5. CASE webhook_lock \/ capture_lock
  <2>1. /\ wk' = [wk EXCEPT !.pc = "locked", !.os = db.status] /\ wk.pc \in {"fetched", "selected"}
        /\ wk.pc = "selected" => db.pay[wk.p] = "AUTHORIZED"
    BY <1>5 DEF webhook_lock, capture_lock
  <2>2. wk'.pc = "locked" /\ wk'.p = wk.p /\ wk'.view = wk.view /\ wk'.os = db.status /\ wk.p \in Pay
    BY <1>0, <2>1 DEF Job, ViewIsTrue
  <2>3. JobHolds'
    BY <1>0, <2>1, <2>2 DEF ChargeInv, JobHolds
  <2>4. StaleHolds'
    BY <1>3, <2>2 DEF StaleHolds
  <2>5. AuthKnown'
    BY <1>0, <1>2, <2>1, <2>2 DEF ChargeInv, AuthKnown
  <2> QED BY <1>1, <2>3, <2>4, <2>5 DEF ChargeInv
<1>6. ASSUME NEW p \in Pay, webhook_fetch(p) \/ reconcile(p) PROVE ChargeInv'
  <2>1. /\ wk'.pc \in {"fetched", "locked"} /\ wk'.p = p /\ wk'.view = intent[p] /\ intent[p].st # "NONE"
        /\ wk'.pc = "locked" => wk'.os = db.status
    BY <1>6 DEF webhook_fetch, reconcile
  <2>2. JobHolds' /\ AuthKnown'
    BY <1>0, <1>2, <2>1 DEF JobHolds, AuthKnown, Kept
  <2>3. StaleHolds'
    BY <1>3, <2>1 DEF StaleHolds
  <2> QED BY <1>1, <2>2, <2>3 DEF ChargeInv
<1>7. ASSUME NEW p \in Pay, capture_select(p) PROVE ChargeInv'
  <2>1. /\ wk'.pc = "selected" /\ wk'.p = p /\ wk'.view.st = "NONE" /\ db.pay[p] = "AUTHORIZED" /\ db.status \in Due
    BY <1>7 DEF capture_select, NoIntent, Due
  <2>2. JobHolds' /\ StaleHolds' /\ AuthKnown'
    BY <1>0, <1>2, <2>1 DEF JobHolds, StaleHolds, AuthKnown, Early
  <2> QED BY <1>1, <2>2 DEF ChargeInv
<1> QED BY <1>4, <1>5, <1>6, <1>7

\* A request that holds a payment holds its row lock, so the capture job does not.
LEMMA HeldFree ==
  ASSUME IInv, ChargeInv, NEW op, Committing(op), Held # NoPay
  PROVE  /\ Held \in Pay /\ db.pay[Held] \in LIVE /\ PaymentFree(Held) /\ Held = otx.snap
         /\ ~(wk.pc = "locked" /\ wk.view.st = "NONE")
<1>1. Held \in Pay /\ db.pay[Held] \in LIVE
  BY HeldLive
<1>2. Held = otx.snap /\ PaymentFree(Held)
  BY DEF Committing, HasPaymentLock, Held, still_live
<1>3. ASSUME wk.pc = "locked", wk.view.st = "NONE" PROVE FALSE
  <2>1. wk.p \in Pay /\ db.pay[wk.p] = "AUTHORIZED"
    BY <1>3 DEF IInv, ViewIsTrue, ChargeInv, JobHolds
  <2>2. wk.p = Held
    BY <1>1, <2>1 DEF IInv, RowInv, Core, OneLive
  <2> QED BY <1>2, <1>3, <2>2 DEF PaymentFree
<1> QED BY <1>1, <1>2, <1>3

\* Before the work is approved or disputed the capture job holds nothing, and the app has
\* collected nothing before the order is Late.
LEMMA NotDue ==
  ASSUME IInv, ChargeInv
  PROVE  /\ db.status \notin Due => ~(wk.pc = "locked" /\ wk.view.st = "NONE")
         /\ db.status \notin Late => \A q \in Pay : ~AppPaid(q)
BY DEF ChargeInv, JobHolds, PaidIsLate

\* Choosing a card charges nothing.
LEMMA set_payment_methodCharge ==
  ASSUME IInv, ChargeInv, set_payment_method
  PROVE  ChargeInv'
<1>1. Held \in Pay /\ ~(wk.pc = "locked" /\ wk.view.st = "NONE")
  BY HeldFree DEF set_payment_method
<1>2. /\ db'.pay = db.pay /\ db'.status = db.status /\ otx' = NoTx /\ UNCHANGED <<intent, panel, wk>>
  BY <1>1 DEF set_payment_method, Committing, IInv, TypeOK, Row
<1>3. KeptStays /\ Quiet(db, db') /\ \A q \in Pay : AppPaid(q)' => AppPaid(q) /\ db'.status \in Late
  BY <1>2 DEF KeptStays, Quiet, AppPaid, ChargeInv, PaidIsLate
<1> QED BY <1>1, <1>2, <1>3, CommitKeeps

\* Authorizing a charge, or finding it authorized, collects nothing.
LEMMA AuthorizeCharge ==
  ASSUME IInv, NEW p \in Pay, NEW v \in authorize_results(p), intent' = [intent EXCEPT ![p] = v]
  PROVE  /\ KeptStays /\ intent'[p] = v /\ \A q \in Pay : intent'[q].st = "PAID" => intent[q].st = "PAID"
<1>1. \A q \in Pay : intent'[q] = IF q = p THEN v ELSE intent[q]
  BY DEF IInv, TypeOK
<1>2. v = intent[p] \/ (intent[p].st = "NONE" /\ v.st # "PAID")
  BY DEF authorize_results
<1> QED BY <1>1, <1>2 DEF KeptStays, Kept

\* Departing, with its authorization answered or lost, collects nothing.
LEMMA departCharge ==
  ASSUME IInv, ChargeInv, depart \/ depart_lost
  PROVE  ChargeInv'
<1>1. /\ db.status = "SCHEDULED" /\ otx' = NoTx /\ UNCHANGED <<panel, wk>> /\ Held # NoPay /\ Held \in Pay
      /\ ~(wk.pc = "locked" /\ wk.view.st = "NONE")
  BY HeldFree DEF depart, depart_lost, Committing, ChargeInv, OpHolds
<1>2. \A q \in Pay : ~AppPaid(q)
  BY <1>1, NotDue DEF Late
<1>3. ASSUME UNCHANGED intent, db'.pay = db.pay, db'.status = db.status PROVE ChargeInv'
  <2>1. KeptStays /\ Quiet(db, db') /\ \A q \in Pay : ~AppPaid(q)'
    BY <1>1, <1>2, <1>3 DEF KeptStays, Quiet, AppPaid
  <2> QED BY <1>1, <1>3, <2>1, CommitKeeps
<1>4. CASE depart /\ UNCHANGED intent /\ db' = mark_departed(db, Held)
  <2>1. db'.pay = db.pay /\ db'.status = db.status
    BY <1>4 DEF mark_departed, IInv, TypeOK, Row
  <2> QED BY <1>3, <1>4, <2>1
<1>5. CASE depart /\ ~(UNCHANGED intent /\ db' = mark_departed(db, Held))
  <2>1. PICK v \in authorize_results(Held) :
          /\ has_room(db, Held, v, "SCHEDULED")
          /\ intent' = [intent EXCEPT ![Held] = v]
          /\ db' = mark_departed(apply_provider_state(db, Held, v, "SCHEDULED", Full), Held)
    BY <1>5 DEF depart
  <2>2. /\ KeptStays /\ intent'[Held] = v /\ v \in View
        /\ \A q \in Pay : intent'[q].st = "PAID" => intent[q].st = "PAID"
    BY <1>1, <2>1, AuthorizeCharge, AuthorizeIntent
  <2> DEFINE e == apply_provider_state(db, Held, v, "SCHEDULED", Full)
  <2>3. Applied(db, e, Held, v.st, "SCHEDULED") /\ v.st \in ProviderStatus
    BY <1>1, <2>1, <2>2, ApplyEffect DEF IInv, TypeOK, View
  <2>4. db'.pay = e.pay /\ db'.status = e.status
    <3>1. e \in Row
      <4>1. RowInv(db, intent')
        BY <1>1, <2>1, AuthorizeIntent, SettledKeeps DEF IInv
      <4>2. v.st = "PAID" => intent'[Held] = v /\ v.rc # 0
        BY <1>1, <2>1, AuthorizeIntent
      <4> QED BY <1>1, <2>1, <2>2, <4>1, <4>2, FullPositive, ApplyRow DEF RowInv, Core
    <3> HIDE DEF e
    <3> QED BY <2>1, <3>1 DEF mark_departed, e, Row
  <2> HIDE DEF e
  <2>5. /\ \A q \in Pay : e.pay[q] = "AUTHORIZED" => db.pay[q] = "AUTHORIZED" \/ (q = Held /\ v.st = "AUTHORIZED")
        /\ Quiet(db, e)
    BY <1>1, <2>3, AppliedPays DEF IInv, RowInv, Core
  <2>6. Quiet(db, db')
    BY <2>4, <2>5 DEF Quiet
  <2>7. \A q \in Pay : ~AppPaid(q)'
    BY <1>1, <1>2, <2>2 DEF AppPaid
  <2>8. \A p \in Pay : db'.pay[p] = "AUTHORIZED" => db.pay[p] = "AUTHORIZED" \/ intent'[p].st \in Kept
    BY <2>2, <2>4, <2>5 DEF Kept
  <2> QED BY <1>1, <2>2, <2>6, <2>7, <2>8, CommitKeeps
<1>6. CASE depart_lost
  <2>1. PICK v \in authorize_results(Held) : intent' = [intent EXCEPT ![Held] = v]
    BY <1>6 DEF depart_lost
  <2>2. KeptStays /\ \A q \in Pay : ~AppPaid(q)'
    BY <1>1, <1>2, <2>1, AuthorizeCharge DEF AppPaid
  <2>3. Quiet(db, db') /\ db' = db
    BY <1>6 DEF depart_lost, Quiet
  <2> QED BY <1>1, <2>2, <2>3, CommitKeeps
<1> QED BY <1>4, <1>5, <1>6

\* Reading the live payment's state from the provider charges nothing.
LEMMA refreshCharge ==
  ASSUME IInv, ChargeInv, refresh
  PROVE  ChargeInv'
<1>1. /\ otx' = NoTx /\ UNCHANGED <<intent, panel, wk>> /\ Held \in Pay
      /\ ~(wk.pc = "locked" /\ wk.view.st = "NONE")
  BY HeldFree DEF refresh, Committing
<1>2. db \in Row /\ db.status \in OrderStatus /\ intent[Held] \in View /\ intent[Held].st \in ProviderStatus
  BY <1>1 DEF IInv, TypeOK, Row, View
<1>3. Applied(db, db', Held, intent[Held].st, db.status)
  BY <1>1, <1>2, ApplyEffect DEF refresh
<1>4. /\ \A q \in Pay : db'.pay[q] \in LIVE => db.pay[q] \in LIVE \/ db.status = "SCHEDULED"
      /\ \A q \in Pay : db'.pay[q] \in CANCELLABLE => db.pay[q] \in CANCELLABLE \/ db.status = "SCHEDULED"
      /\ \A q \in Pay : db'.pay[q] = "AUTHORIZED" => db.pay[q] = "AUTHORIZED" \/ intent[q].st = "AUTHORIZED"
      /\ db'.status = db.status \/ db'.status \in Late
      /\ Quiet(db, db')
  <2>1. OneLive(db)
    BY DEF IInv, RowInv, Core
  <2> QED BY <1>1, <1>2, <1>3, <2>1, AppliedPays DEF replaces
<1>5. KeptStays /\ \A q \in Pay : AppPaid(q)' => AppPaid(q)
  BY <1>1 DEF KeptStays, AppPaid
<1>6. \A q \in Pay : AppPaid(q) => db.status \in Late /\ db.status # "SCHEDULED"
  BY DEF ChargeInv, PaidIsLate, Late
<1>7. \A p \in Pay : db'.pay[p] = "AUTHORIZED" => db.pay[p] = "AUTHORIZED" \/ intent'[p].st \in Kept
  BY <1>1, <1>4 DEF Kept
<1> QED BY <1>1, <1>4, <1>5, <1>6, <1>7, CommitKeeps

\* cancel_for_order closes the open payment it is given.
LEMMA CancelEffect ==
  ASSUME NEW d \in Row, NEW p \in Pay \cup {NoPay}, NEW ok \in BOOLEAN, NEW e, e = cancel_for_order(d, p, ok)
  PROVE  /\ e \in Row /\ e.status = d.status /\ e.deals = d.deals /\ e.quote = d.quote
         /\ \A q \in Pay : e.pay[q] = IF q = p /\ d.pay[q] \in CANCELLABLE THEN "CANCELLED" ELSE d.pay[q]
<1>1. CASE ~voids(d, p)
  BY <1>1, PayAssumption DEF cancel_for_order, voids
<1>2. CASE voids(d, p)
  <2> DEFINE k == IF d.pid[p] /\ ~ok THEN 1 ELSE d.void[p]
  <2>1. p \in Pay /\ d.pay[p] \in CANCELLABLE
    BY <1>2 DEF voids
  <2>2. k \in 0..(MaxVoidAttempts + 1)
    BY <2>1, BoundAssumption DEF Row
  <2>3. e = [d EXCEPT !.pay[p] = "CANCELLED", !.departed = FALSE, !.void[p] = k]
    BY <1>2, <2>1 DEF cancel_for_order, move, Row
  <2> HIDE DEF k
  <2> DEFINE pays == [d.pay EXCEPT ![p] = "CANCELLED"]
             queue == [d.void EXCEPT ![p] = k]
             still == FALSE
  <2>4. pays \in [Pay -> PaymentStatus \cup {"NONE"}] /\ queue \in [Pay -> 0..(MaxVoidAttempts + 1)] /\ still \in BOOLEAN
    BY <2>1, <2>2 DEF Row
  <2>5. e = [d EXCEPT !.pay = pays, !.departed = still, !.void = queue]
    BY <2>3 DEF Row
  <2>6. \A q \in Pay : pays[q] = IF q = p THEN "CANCELLED" ELSE d.pay[q]
    BY <2>1 DEF Row
  <2> HIDE DEF pays, queue, still
  <2>7. /\ e \in Row /\ e.status = d.status /\ e.deals = d.deals /\ e.quote = d.quote /\ e.pay = pays
    BY <2>4, <2>5 DEF Row
  <2> QED BY <2>1, <2>6, <2>7
<1> QED BY <1>1, <1>2

\* Voiding collects nothing.
LEMMA CancelCharge ==
  ASSUME IInv, NEW p \in Pay \cup {NoPay}, NEW ok \in BOOLEAN, provider_cancel(p, ok)
  PROVE  KeptStays /\ \A q \in Pay : intent'[q].st = "PAID" => intent[q].st = "PAID"
<1>1. CASE UNCHANGED intent
  BY <1>1 DEF KeptStays
<1>2. CASE p \in Pay /\ intent' = [intent EXCEPT ![p].st = "CANCELLED"]
  <2>1. \A q \in Pay : intent'[q].st = IF q = p THEN "CANCELLED" ELSE intent[q].st
    BY <1>2 DEF IInv, TypeOK, View
  <2> QED BY <2>1 DEF KeptStays, Kept
<1> QED BY <1>1, <1>2 DEF provider_cancel, voids

\* A commit that collects nothing and only closes payments, under a status past new charges or
\* before any.
LEMMA ClosingCommit ==
  ASSUME IInv, ChargeInv, otx' = NoTx, UNCHANGED <<panel, wk>>, KeptStays,
         ~(wk.pc = "locked" /\ wk.view.st = "NONE"),
         \A q \in Pay : intent'[q].st = "PAID" => intent[q].st = "PAID",
         db.status \in Late => db'.status \in Late,
         \A q \in Pay : db'.pay[q] = db.pay[q] \/ (db.pay[q] \in CANCELLABLE /\ db'.pay[q] = "CANCELLED"),
         \A q \in Pay : db'.pay[q] = "AUTHORIZED" /\ db.status \in Due => db'.status \in Due
  PROVE  ChargeInv'
<1>1. \A q \in Pay : AppPaid(q)' => AppPaid(q) /\ db'.status \in Late
  BY DEF AppPaid, ChargeInv, PaidIsLate
<1>2. Quiet(db, db')
  BY DEF Quiet, Early
<1>3. \A p \in Pay : db'.pay[p] \in LIVE => db.pay[p] \in LIVE
  OBVIOUS
<1> QED BY <1>1, <1>2, <1>3, CommitKeeps

\* A withdrawal comes before any charge.
LEMMA withdrawCharge ==
  ASSUME IInv, ChargeInv, withdraw
  PROVE  ChargeInv'
<1>1. PICK ok \in BOOLEAN :
        provider_cancel(Held, ok) /\ db' = transition(cancel_for_order(db, Held, ok), "REQUESTED")
  BY DEF withdraw
<1>2. /\ otx' = NoTx /\ UNCHANGED <<panel, wk>> /\ db.status \in {"ACCEPTED", "SCHEDULED"} /\ db \in Row
      /\ Held \in Pay \cup {NoPay}
  BY HeldLive DEF withdraw, Committing, ChargeInv, OpHolds, IInv, TypeOK
<1> DEFINE e == cancel_for_order(db, Held, ok)
<1>3. /\ e \in Row
      /\ \A q \in Pay : e.pay[q] = IF q = Held /\ db.pay[q] \in CANCELLABLE THEN "CANCELLED" ELSE db.pay[q]
  BY <1>2, CancelEffect
<1> HIDE DEF e
<1>4. db'.pay = e.pay
  BY <1>1, <1>3, TransitionEffect DEF e
<1>5. KeptStays /\ \A q \in Pay : intent'[q].st = "PAID" => intent[q].st = "PAID"
  BY <1>1, <1>2, CancelCharge
<1>6. \A q \in Pay : db'.pay[q] = db.pay[q] \/ (db.pay[q] \in CANCELLABLE /\ db'.pay[q] = "CANCELLED")
  BY <1>3, <1>4
<1> QED BY <1>2, <1>5, <1>6, NotDue, ClosingCommit DEF Late, Due

\* A charge collected now, of the payment the request holds.
LEMMA CaptureCharge ==
  ASSUME IInv, ChargeInv, NEW op, Committing(op), UNCHANGED <<panel, wk>>, Held # NoPay,
         NEW amount, intent' = [intent EXCEPT ![Held] = captured_view(Held, amount)],
         db.pay[Held] = "AUTHORIZED", db'.status \in Late,
         \A q \in Pay \ {Held} : db'.pay[q] = db.pay[q],
         db'.pay[Held] \notin Early,
         db'.pay[Held] = "AUTHORIZED" => db'.status \in Due,
         db'.pay[Held] \in CANCELLABLE => db'.pay[Held] = "AUTHORIZED"
  PROVE  ChargeInv'
<1>1. Held \in Pay /\ PaymentFree(Held) /\ ~(wk.pc = "locked" /\ wk.view.st = "NONE") /\ otx' = NoTx
  BY HeldFree DEF Committing
<1>2. \A q \in Pay : intent'[q] = IF q = Held THEN captured_view(Held, amount) ELSE intent[q]
  BY <1>1 DEF IInv, TypeOK
<1>3. captured_view(Held, amount).st = "PAID"
  BY DEF captured_view
<1>4. KeptStays
  BY <1>2, <1>3 DEF KeptStays, Kept
<1>5. \A q \in Pay : AppPaid(q)' => AppPaid(q) \/ q = Held
  BY <1>2 DEF AppPaid
<1>6. Quiet(db, db')
  BY <1>1 DEF Quiet, IInv, RowInv, Core, OneLive
<1>7. \A p \in Pay : /\ db'.pay[p] \in LIVE => db.pay[p] \in LIVE
                     /\ db'.pay[p] \in CANCELLABLE => db.pay[p] \in CANCELLABLE
                     /\ db'.pay[p] = "AUTHORIZED" => db.pay[p] = "AUTHORIZED"
  BY <1>1
<1> QED BY <1>1, <1>4, <1>5, <1>6, <1>7, CommitKeeps

\* A partial capture that was answered.
LEMMA CapturePartialCharge ==
  ASSUME IInv, ChargeInv, NEW op, Committing(op), UNCHANGED <<panel, wk>>, Held # NoPay,
         NEW amount \in Amounts \ {0}, NEW s \in Late, capture_partial(transition(db, s), Held, amount)
  PROVE  ChargeInv'
<1> DEFINE d == transition(db, s)
           v == captured_view(Held, amount)
<1>1. Held \in Pay /\ s \in OrderStatus
  BY HeldFree DEF Late
<1>2. d \in Row /\ d.pay = db.pay /\ d.status = s
  BY <1>1, TransitionEffect DEF IInv, TypeOK
<1>3. /\ d.pay[Held] = "AUTHORIZED" /\ intent' = [intent EXCEPT ![Held] = v]
      /\ db' = apply_provider_state(d, Held, v, d.status, amount)
  BY DEF capture_partial
<1>4. v \in View /\ v.st = "PAID"
  BY <1>1, <1>3, CaptureIntent
<1> HIDE DEF d, v
<1>5. has_room(d, Held, v, d.status)
  BY <1>4 DEF has_room
<1>6. Applied(d, db', Held, "PAID", d.status)
  BY <1>1, <1>2, <1>3, <1>4, <1>5, ApplyEffect
<1>7. /\ db'.pay[Held] = "PAID" /\ db'.status \in Late /\ \A q \in Pay \ {Held} : db'.pay[q] = db.pay[q]
  BY <1>2, <1>3, <1>6 DEF Applied, takes, replaces, Late
<1> QED BY <1>2, <1>3, <1>7, CaptureCharge DEF v, Early

\* A cancellation that only voids.
LEMMA CancelNoFeeCharge ==
  ASSUME IInv, ChargeInv, cancel, cancel_no_fee
  PROVE  ChargeInv'
<1>1. PICK ok \in BOOLEAN :
        provider_cancel(Again, ok) /\ db' = cancel_for_order(transition(db, "CANCELLED"), Again, ok)
  BY DEF cancel_no_fee
<1>2. /\ otx' = NoTx /\ UNCHANGED <<panel, wk>> /\ db.status \in {"REQUESTED", "ACCEPTED", "SCHEDULED"}
      /\ db \in Row /\ Again \in Pay \cup {NoPay}
  BY HeldLive DEF cancel, Committing, ChargeInv, OpHolds, IInv, TypeOK
<1> DEFINE e == transition(db, "CANCELLED")
<1>3. e \in Row /\ e.pay = db.pay
  BY <1>2, TransitionEffect
<1>4. db' = cancel_for_order(e, Again, ok)
  BY <1>1
<1> HIDE DEF e
<1>5. \A q \in Pay : db'.pay[q] = db.pay[q] \/ (db.pay[q] \in CANCELLABLE /\ db'.pay[q] = "CANCELLED")
  <2>1. e \in Row /\ Again \in Pay \cup {NoPay} /\ ok \in BOOLEAN
    BY <1>2, <1>3
  <2>2. \A q \in Pay : db'.pay[q] = IF q = Again /\ e.pay[q] \in CANCELLABLE THEN "CANCELLED" ELSE e.pay[q]
    BY <2>1, <1>4, CancelEffect, SMT
  <2> QED BY <1>3, <2>2
<1>6. KeptStays /\ \A q \in Pay : intent'[q].st = "PAID" => intent[q].st = "PAID"
  BY <1>1, <1>2, CancelCharge
<1> QED BY <1>2, <1>5, <1>6, NotDue, ClosingCommit DEF Late, Due

\* A cancellation collects at most the visit fee of the payment it holds.
LEMMA cancelCharge ==
  ASSUME IInv, ChargeInv, cancel
  PROVE  ChargeInv'
<1>0. /\ Committing("cancel") /\ otx' = NoTx /\ UNCHANGED <<panel, wk>> /\ db \in Row
      /\ db.status \in {"REQUESTED", "ACCEPTED", "SCHEDULED"}
  BY DEF cancel, Committing, ChargeInv, OpHolds, IInv, TypeOK
<1>1. CASE cancel_no_fee
  BY <1>1, CancelNoFeeCharge
<1>2. CASE /\ Held # NoPay
           /\ \E fee \in Parts \cup {Full} : capture_partial(transition(db, "CANCELLED"), Held, fee)
  <2>1. PICK fee \in Parts \cup {Full} : capture_partial(transition(db, "CANCELLED"), Held, fee)
    BY <1>2
  <2>2. fee \in Amounts \ {0} /\ "CANCELLED" \in Late
    BY FullPositive DEF Late
  <2> QED BY <1>0, <1>2, <2>1, <2>2, CapturePartialCharge
<1>3. CASE /\ Held # NoPay /\ db.pay[Held] = "AUTHORIZED"
           /\ \E fee \in Parts \cup {Full} : capture_partial_lost(Held, fee)
  <2>1. PICK fee \in Parts \cup {Full} : capture_partial_lost(Held, fee)
    BY <1>3
  <2> DEFINE e == transition(db, "CANCELLED")
  <2>2. e \in Row /\ e.pay = db.pay /\ e.status = "CANCELLED" /\ Held \in Pay
    BY <1>0, <1>3, HeldFree, TransitionEffect
  <2>3. db' = cancel_for_order(e, Held, FALSE) /\ intent' = [intent EXCEPT ![Held] = captured_view(Held, fee)]
    BY <2>1 DEF capture_partial_lost
  <2> HIDE DEF e
  <2>4. /\ db'.status = "CANCELLED" /\ db'.pay[Held] = "CANCELLED"
        /\ \A q \in Pay \ {Held} : db'.pay[q] = db.pay[q]
    <3>0. PICK ok \in BOOLEAN : ok = FALSE
      OBVIOUS
    <3> DEFINE f == cancel_for_order(e, Held, ok)
    <3>1. /\ f.status = e.status
          /\ \A q \in Pay : f.pay[q] = IF q = Held /\ e.pay[q] \in CANCELLABLE THEN "CANCELLED" ELSE e.pay[q]
      BY <2>2, CancelEffect
    <3> HIDE DEF f
    <3>2. db' = f
      BY <2>3, <3>0 DEF f
    <3> QED BY <1>3, <2>2, <3>1, <3>2
  <2>5. db'.status \in Late /\ db'.pay[Held] \notin Early /\ db'.pay[Held] \notin CANCELLABLE
    BY <2>4 DEF Late, Early
  <2> QED BY <1>0, <1>3, <2>3, <2>4, <2>5, CaptureCharge
<1>4. CASE /\ Held # NoPay /\ ~capture_answers(Held) /\ UNCHANGED intent
           /\ db' = apply_provider_state(transition(db, "CANCELLED"), Held, intent[Held], "CANCELLED", Full)
  <2> DEFINE d == transition(db, "CANCELLED")
  <2>1. Held \in Pay /\ intent[Held] \in View /\ intent[Held].st \in ProviderStatus
    BY <1>0, <1>4, HeldFree DEF IInv, TypeOK, View
  <2>2. d \in Row /\ d.pay = db.pay /\ d.status = "CANCELLED"
    BY <1>0, TransitionEffect
  <2>3. has_room(d, Held, intent[Held], "CANCELLED") /\ db' = apply_provider_state(d, Held, intent[Held], "CANCELLED", Full)
    BY <1>4 DEF has_room
  <2> HIDE DEF d
  <2>4. Applied(d, db', Held, intent[Held].st, "CANCELLED")
    BY <2>1, <2>2, <2>3, ApplyEffect
  <2>5. OneLive(d)
    BY <2>2 DEF IInv, RowInv, Core, OneLive
  <2>6. /\ \A q \in Pay : db'.pay[q] = "AUTHORIZED" => d.pay[q] = "AUTHORIZED" \/ intent[q].st = "AUTHORIZED"
        /\ Quiet(d, db')
    BY <2>1, <2>2, <2>4, <2>5, AppliedPays
  <2>7. Quiet(db, db')
    BY <1>0, <2>2, <2>6 DEF Quiet, Due
  <2>8. KeptStays /\ \A q \in Pay : ~AppPaid(q)'
    BY <1>0, <1>4, NotDue DEF KeptStays, AppPaid, Late
  <2>9. \A p \in Pay : db'.pay[p] = "AUTHORIZED" => db.pay[p] = "AUTHORIZED" \/ intent'[p].st \in Kept
    BY <1>4, <2>2, <2>6 DEF Kept
  <2>10. ~(wk.pc = "locked" /\ wk.view.st = "NONE")
    BY <1>0, NotDue DEF Due
  <2> QED BY <1>0, <2>7, <2>8, <2>9, <2>10, CommitKeeps
<1> QED BY <1>1, <1>2, <1>3, <1>4 DEF cancel

\* A dispute, however resolved, collects at most a part of the payment it holds.
LEMMA resolve_disputeCharge ==
  ASSUME IInv, ChargeInv, resolve_dispute
  PROVE  ChargeInv'
<1> DEFINE captured == Held # NoPay /\ db.pay[Held] \in PAYMENT_CONFIRMED
           authorized == Held # NoPay /\ db.pay[Held] = "AUTHORIZED"
<1>0. /\ Committing("resolve_dispute") /\ otx' = NoTx /\ UNCHANGED <<panel, wk>> /\ db \in Row
      /\ db.status = "DISPUTED"
  BY DEF resolve_dispute, Committing, ChargeInv, OpHolds, IInv, TypeOK
<1>a. after_payment(db) \in Late /\ after_payment(db) \in OrderStatus
  BY DEF after_payment, Late
<1>b. \A p, q \in Pay : db.pay[p] \in LIVE /\ db.pay[q] \in LIVE => p = q
  BY DEF IInv, RowInv, Core, OneLive
<1>c. Held # NoPay => Held \in Pay /\ db.pay[Held] \in LIVE /\ ~(wk.pc = "locked" /\ wk.view.st = "NONE")
  BY <1>0, HeldFree
<1>d. UNCHANGED intent => KeptStays
  BY DEF KeptStays
<1>1. CASE captured /\ db' = transition(db, after_payment(db)) /\ UNCHANGED intent
  <2>1. db'.pay = db.pay /\ db'.status \in Late
    BY <1>0, <1>a, <1>1, TransitionEffect
  <2>2. \A q \in Pay : db.pay[q] # "AUTHORIZED"
    BY <1>1, <1>b, <1>c
  <2> QED BY <1>0, <1>1, <1>c, <1>d, <2>1, <2>2, ClosingCommit
<1>2. CASE authorized /\ db' = _after_completed(transition(db, "COMPLETED")) /\ UNCHANGED intent
  <2>1. db'.pay = db.pay /\ (db'.status = "COMPLETED" \/ \E p \in Pay : db.pay[p] \in PAYMENT_CONFIRMED)
    BY <1>0, <1>2, CompletedEffect
  <2>2. db'.status = "COMPLETED"
    BY <1>2, <1>b, <1>c, <2>1
  <2>3. db'.status \in Late /\ db'.status \in Due
    BY <2>2 DEF Late, Due
  <2> QED BY <1>0, <1>2, <1>c, <1>d, <2>1, <2>3, ClosingCommit
<1>3. CASE authorized /\ \E amount \in Parts : capture_partial(transition(db, after_payment(db)), Held, amount)
  <2>1. PICK amount \in Parts : capture_partial(transition(db, after_payment(db)), Held, amount)
    BY <1>3
  <2>2. amount \in Amounts \ {0}
    BY FullPositive
  <2> QED BY <1>0, <1>3, <1>a, <2>1, <2>2, CapturePartialCharge
<1>4. CASE /\ AgainFree
           /\ \E ok \in BOOLEAN : /\ provider_cancel(Again, ok)
                                  /\ db' = transition(cancel_for_order(db, Again, ok), "CANCELLED")
  <2>1. PICK ok \in BOOLEAN :
          provider_cancel(Again, ok) /\ db' = transition(cancel_for_order(db, Again, ok), "CANCELLED")
    BY <1>4
  <2>2. Again \in Live(db) \cup {NoPay} /\ (Again = NoPay => Live(db) = {})
    BY ActivePayment DEF Again
  <2>3. KeptStays /\ \A q \in Pay : intent'[q].st = "PAID" => intent[q].st = "PAID"
    BY <2>1, HeldLive, CancelCharge
  <2> DEFINE e == cancel_for_order(db, Again, ok)
  <2>4. /\ e \in Row
        /\ \A q \in Pay : e.pay[q] = IF q = Again /\ db.pay[q] \in CANCELLABLE THEN "CANCELLED" ELSE db.pay[q]
    BY <1>0, HeldLive, CancelEffect
  <2> HIDE DEF e
  <2>5. db'.pay = e.pay /\ db'.status = "CANCELLED"
    BY <2>1, <2>4, TransitionEffect DEF e
  <2>6. \A q \in Pay : db.pay[q] = "AUTHORIZED" => q = Again
    BY <1>b, <2>2 DEF Live
  <2>7. \A q \in Pay : db'.pay[q] # "AUTHORIZED"
    BY <2>4, <2>5, <2>6
  <2>8. ~(wk.pc = "locked" /\ wk.view.st = "NONE")
    <3> SUFFICES ASSUME wk.pc = "locked", wk.view.st = "NONE" PROVE FALSE
      OBVIOUS
    <3>1. wk.p \in Pay /\ db.pay[wk.p] = "AUTHORIZED"
      BY DEF IInv, ViewIsTrue, ChargeInv, JobHolds
    <3>2. wk.p = Again /\ Again # NoPay
      BY <2>6, <3>1, PayAssumption
    <3> QED BY <1>4, <3>2 DEF AgainFree, PaymentFree
  <2>9. \A q \in Pay : db'.pay[q] = db.pay[q] \/ (db.pay[q] \in CANCELLABLE /\ db'.pay[q] = "CANCELLED")
    BY <2>4, <2>5
  <2> QED BY <1>0, <2>3, <2>5, <2>7, <2>8, <2>9, ClosingCommit DEF Late
<1> QED BY <1>1, <1>2, <1>3, <1>4 DEF resolve_dispute

\* So does one whose answer is lost.
LEMMA resolve_lostCharge ==
  ASSUME IInv, ChargeInv, resolve_lost
  PROVE  ChargeInv'
<1>1. PICK amount \in Parts : intent' = [intent EXCEPT ![Held] = captured_view(Held, amount)]
  BY DEF resolve_lost
<1>2. /\ Committing("resolve_dispute") /\ Held # NoPay /\ db.pay[Held] = "AUTHORIZED" /\ UNCHANGED <<db, panel, wk>>
      /\ db.status = "DISPUTED"
  BY DEF resolve_lost, Committing, ChargeInv, OpHolds
<1>3. db'.status \in Late /\ db'.status \in Due /\ db'.pay[Held] \notin Early
  BY <1>2 DEF Late, Due, Early
<1> QED BY <1>1, <1>2, <1>3, CaptureCharge

\* A webhook or a reconciliation, from a view that may be stale, charges nothing.
LEMMA applyCharge ==
  ASSUME IInv, ChargeInv, apply
  PROVE  ChargeInv'
<1>1. /\ wk.p \in Pay /\ wk.view \in View /\ wk.view.st \in ProviderStatus /\ wk.os \in OrderStatus /\ db \in Row
      /\ OneLive(db)
  BY DEF apply, IInv, TypeOK, Job, View, ViewIsTrue, RowInv, Core
<1>2. /\ wk.pc = "locked" /\ has_room(db, wk.p, wk.view, wk.os) /\ wk' = Idle /\ UNCHANGED <<intent, panel, otx>>
      /\ touches_order(db, wk.p, wk.view, wk.os) => otx.op = "none"
      /\ db' = apply_provider_state(db, wk.p, wk.view, wk.os, Full)
  BY DEF apply
<1>3. Applied(db, db', wk.p, wk.view.st, wk.os)
  BY <1>1, <1>2, ApplyEffect
<1>4. /\ \A q \in Pay : db'.pay[q] \in LIVE => db.pay[q] \in LIVE \/ replaces(db, wk.p, wk.view.st, wk.os)
      /\ \A q \in Pay : db'.pay[q] = "AUTHORIZED"
           => db.pay[q] = "AUTHORIZED" \/ (q = wk.p /\ wk.view.st = "AUTHORIZED")
      /\ db'.status = db.status \/ db'.status \in Late
  BY <1>1, <1>3, AppliedPays
<1>5. db'.status = db.status \/ otx.op = "none"
  BY <1>2, <1>3 DEF Applied, touches_order
<1>6. KeptStays /\ \A q \in Pay : AppPaid(q)' => AppPaid(q)
  BY <1>2 DEF KeptStays, AppPaid
<1>7. \A q \in Pay : AppPaid(q) => db.status \in Late /\ ~replaces(db, wk.p, wk.view.st, wk.os)
  <2> SUFFICES ASSUME NEW q \in Pay, AppPaid(q) PROVE db.status \in Late /\ ~replaces(db, wk.p, wk.view.st, wk.os)
    OBVIOUS
  <2>1. db.status \in Late /\ (db.pay[wk.p] \in LIVE => wk.p = q)
    BY <1>1 DEF ChargeInv, PaidIsLate
  <2>2. wk.os = "SCHEDULED" /\ wk.p = q => db.pay[wk.p] \notin CANCELLABLE
    BY <1>2 DEF ChargeInv, StaleHolds
  <2> QED BY <2>1, <2>2 DEF replaces
<1>8. \A p \in Pay : db'.pay[p] = "AUTHORIZED" => db.pay[p] = "AUTHORIZED" \/ intent'[p].st \in Kept
  BY <1>2, <1>4 DEF ChargeInv, AuthKnown
<1> QED BY <1>2, <1>4, <1>5, <1>6, <1>7, <1>8, JobKeeps

\* The capture job collects the payment it locked, which is authorized and due.
LEMMA captureCharge ==
  ASSUME IInv, ChargeInv, capture \/ capture_lost
  PROVE  ChargeInv'
<1>0. /\ wk.p \in Pay /\ wk.os \in OrderStatus /\ wk' = Idle /\ UNCHANGED <<panel, otx>> /\ db \in Row /\ OneLive(db)
      /\ db.pay[wk.p] = "AUTHORIZED" /\ db.status \in Due /\ intent[wk.p] \in View
  BY DEF capture, capture_lost, IInv, TypeOK, Job, ViewIsTrue, RowInv, Core, ChargeInv, JobHolds
<1>1. db.status \in Late
  BY <1>0 DEF Due, Late
<1>2. CASE capture_lost
  <2>1. \A q \in Pay : intent'[q] = IF q = wk.p THEN captured_view(wk.p, Full) ELSE intent[q]
    BY <1>0, <1>2 DEF capture_lost, IInv, TypeOK
  <2>2. captured_view(wk.p, Full).st = "PAID" /\ db' = db
    BY <1>2 DEF captured_view, capture_lost
  <2>3. KeptStays
    BY <2>1, <2>2 DEF KeptStays, Kept
  <2>4. \A q \in Pay : AppPaid(q)' => AppPaid(q) \/ q = wk.p
    BY <1>0, <2>1 DEF AppPaid
  <2> QED BY <1>0, <1>1, <2>2, <2>3, <2>4, JobKeeps
<1>3. CASE capture
  <2>1. PICK v : /\ v = (IF capture_answers(wk.p) THEN captured_view(wk.p, Full) ELSE intent[wk.p])
                 /\ has_room(db, wk.p, v, wk.os) /\ intent' = [intent EXCEPT ![wk.p] = v]
                 /\ touches_order(db, wk.p, v, wk.os) => otx.op = "none"
                 /\ db' = apply_provider_state(db, wk.p, v, wk.os, Full)
    BY <1>3 DEF capture
  <2>2. \A q \in Pay : intent'[q] = IF q = wk.p THEN v ELSE intent[q]
    BY <1>0, <2>1 DEF IInv, TypeOK
  <2>3. /\ v \in View /\ v.st \in ProviderStatus
        /\ v.st = "PAID" \/ (v = intent[wk.p] /\ intent[wk.p].st # "PAID")
    <3>1. CASE capture_answers(wk.p)
      <4>1. v = captured_view(wk.p, Full)
        BY <2>1, <3>1
      <4> QED BY <1>0, <4>1, FullPositive DEF captured_view, View
    <3>2. CASE ~capture_answers(wk.p)
      BY <1>0, <2>1, <3>2 DEF capture_answers, View
    <3> QED BY <3>1, <3>2
  <2>4. Applied(db, db', wk.p, v.st, wk.os)
    BY <1>0, <2>1, <2>3, ApplyEffect
  <2>5. /\ \A q \in Pay : db'.pay[q] \in LIVE => db.pay[q] \in LIVE \/ replaces(db, wk.p, v.st, wk.os)
        /\ \A q \in Pay : db'.pay[q] = "AUTHORIZED" => db.pay[q] = "AUTHORIZED" \/ (q = wk.p /\ v.st = "AUTHORIZED")
        /\ db'.status = db.status \/ db'.status \in Late
    BY <1>0, <2>3, <2>4, AppliedPays
  <2>6. KeptStays
    BY <2>2, <2>3 DEF KeptStays, Kept
  <2>7. db'.status = db.status \/ otx.op = "none"
    BY <2>1, <2>4 DEF Applied, touches_order
  <2>8. \A q \in Pay : AppPaid(q)' => AppPaid(q) \/ q = wk.p
    BY <1>0, <2>2 DEF AppPaid
  <2>9. \A q \in Pay : AppPaid(q)' => ~replaces(db, wk.p, v.st, wk.os)
    <3> SUFFICES ASSUME NEW q \in Pay, AppPaid(q)', replaces(db, wk.p, v.st, wk.os) PROVE FALSE
      OBVIOUS
    <3>1. v.st # "PAID"
      BY DEF replaces
    <3>2. AppPaid(q) /\ q # wk.p
      BY <1>0, <2>2, <3>1 DEF AppPaid
    <3> QED BY <1>0, <3>2 DEF ChargeInv, PaidIsLate
  <2>10. \A p \in Pay : db'.pay[p] = "AUTHORIZED" => db.pay[p] = "AUTHORIZED"
    BY <1>0, <2>5
  <2> QED BY <1>0, <1>1, <2>5, <2>6, <2>7, <2>8, <2>9, <2>10, JobKeeps
<1> QED BY <1>2, <1>3

\* A step that collects nothing, of the provider, of its panel or of retry_voids.
LEMMA ProviderKeeps ==
  ASSUME IInv, ChargeInv, UNCHANGED <<otx, wk>>, db'.status = db.status, db'.pay = db.pay, KeptStays,
         \A q \in Pay : AppPaid(q)' => AppPaid(q)
  PROVE  ChargeInv'
<1>0. wk.pc # "idle" => wk.p \in Pay
  BY DEF IInv, ViewIsTrue
<1>1. PaidIsLate' /\ ChargedOnce'
  BY ChargesKeep DEF ChargeInv, PaidIsLate
<1>2. OpHolds' /\ JobHolds'
  BY DEF ChargeInv, OpHolds, JobHolds
<1>3. StaleHolds'
  BY <1>0 DEF ChargeInv, StaleHolds
<1>4. AuthKnown'
  BY <1>0 DEF ChargeInv, AuthKnown, KeptStays
<1> QED BY <1>1, <1>2, <1>3, <1>4 DEF ChargeInv

LEMMA ProviderCharge ==
  ASSUME IInv, ChargeInv, provider_step \/ panel_capture
  PROVE  ChargeInv'
<1>1. CASE provider_step
  <2>1. PICK p \in Pay, s \in ProviderStatus :
          <<intent[p].st, s>> \in provider_moves /\ intent' = [intent EXCEPT ![p].st = s]
    BY <1>1 DEF provider_step
  <2>2. s # "PAID" /\ (intent[p].st \in Kept => s \in Kept)
    BY <2>1 DEF provider_moves, Kept
  <2>3. \A q \in Pay : intent'[q].st = IF q = p THEN s ELSE intent[q].st
    BY <2>1 DEF IInv, TypeOK, View
  <2>4. UNCHANGED <<db, panel, otx, wk>>
    BY <1>1 DEF provider_step
  <2>5. KeptStays
    BY <2>2, <2>3 DEF KeptStays
  <2>6. \A q \in Pay : AppPaid(q)' => AppPaid(q)
    BY <2>2, <2>3, <2>4 DEF AppPaid
  <2> QED BY <2>4, <2>5, <2>6, ProviderKeeps
<1>2. CASE panel_capture
  <2>1. PICK p \in Pay, amount \in Amounts \ {0} :
          intent' = [intent EXCEPT ![p] = [st |-> "PAID", rc |-> amount]] /\ panel' = panel \cup {p}
    BY <1>2 DEF panel_capture
  <2>2. \A q \in Pay : intent'[q].st = IF q = p THEN "PAID" ELSE intent[q].st
    BY <2>1 DEF IInv, TypeOK, View
  <2>3. KeptStays
    BY <2>2 DEF KeptStays, Kept
  <2>4. \A q \in Pay : AppPaid(q)' => AppPaid(q)
    BY <2>1, <2>2 DEF AppPaid
  <2>5. UNCHANGED <<db, otx, wk>>
    BY <1>2 DEF panel_capture
  <2> QED BY <2>3, <2>4, <2>5, ProviderKeeps
<1> QED BY <1>1, <1>2

LEMMA retry_voidsCharge ==
  ASSUME IInv, ChargeInv, NEW p \in Pay, retry_voids_ok(p) \/ retry_voids_error(p)
  PROVE  ChargeInv'
<1>1. UNCHANGED <<panel, otx, wk>>
  BY DEF retry_voids_ok, retry_voids_error
<1>2. db'.status = db.status /\ db'.pay = db.pay
  BY DEF retry_voids_ok, retry_voids_error, IInv, TypeOK, Row
<1>3. KeptStays /\ \A q \in Pay : intent'[q].st = "PAID" => intent[q].st = "PAID"
  <2>1. CASE UNCHANGED intent
    BY <2>1 DEF KeptStays
  <2>2. CASE intent' = [intent EXCEPT ![p].st = "CANCELLED"]
    <3>1. \A q \in Pay : intent'[q].st = IF q = p THEN "CANCELLED" ELSE intent[q].st
      BY <2>2 DEF IInv, TypeOK, View
    <3> QED BY <3>1 DEF KeptStays, Kept
  <2> QED BY <2>1, <2>2 DEF retry_voids_ok, retry_voids_error
<1> QED BY <1>1, <1>2, <1>3, ProviderKeeps DEF AppPaid

LEMMA ChargeInit == Init => ChargeInv
<1> SUFFICES ASSUME Init PROVE ChargeInv
  OBVIOUS
<1>1. /\ otx.op = "none" /\ wk.pc = "idle" /\ \A p \in Pay : intent[p].st = "NONE" /\ db.pay[p] = "NONE"
  BY DEF Init, NoTx, Idle, NoIntent
<1> QED BY <1>1 DEF ChargeInv, OpHolds, PaidIsLate, ChargedOnce, JobHolds, StaleHolds, AuthKnown, AppPaid

LEMMA ChargeStep == IInv /\ ChargeInv /\ [Next]_vars => ChargeInv'
<1> SUFFICES ASSUME IInv, ChargeInv, [Next]_vars PROVE ChargeInv'
  OBVIOUS
<1>1. CASE Requests
  BY <1>1, OrderRequestsCharge, BeginCharge, set_payment_methodCharge, departCharge, refreshCharge, withdrawCharge,
     cancelCharge, resolve_disputeCharge, resolve_lostCharge DEF Requests
<1>2. CASE Worker
  BY <1>2, WorkerPicksCharge, applyCharge, captureCharge, retry_voidsCharge DEF Worker
<1>3. CASE provider_step \/ panel_capture
  BY <1>3, ProviderCharge
<1>4. CASE UNCHANGED vars
  BY <1>4 DEF vars, ChargeInv, OpHolds, PaidIsLate, ChargedOnce, JobHolds, StaleHolds, AuthKnown, AppPaid
<1> QED BY <1>1, <1>2, <1>3, <1>4 DEF Next

LEMMA ChargeInvariance == Spec => []ChargeInv
BY ChargeInit, ChargeStep, Invariance, PTL DEF Spec

\* Whatever answers are lost, events come late and requests race the worker, and for any number
\* of replacements, the app collects at most one of the order's charges.
THEOREM NeverChargedTwice == Spec => []ChargedOnce
<1>1. ChargeInv => ChargedOnce
  BY DEF ChargeInv
<1> QED BY <1>1, ChargeInvariance, PTL

\* Who collects a charge, and when.
LEMMA CollectsWhenDue ==
  ASSUME IInv, ChargeInv, [Next]_vars, NEW p \in Pay \ panel', intent[p].st # "PAID", intent'[p].st = "PAID"
  PROVE  db.status \in Due \/ (otx.op = "cancel" /\ otx.arg = "ON_SITE")
<1>1. ASSUME NEW ok \in BOOLEAN, provider_cancel(Held, ok) \/ provider_cancel(Again, ok) PROVE FALSE
  BY <1>1, HeldLive, CancelCharge
<1>2. CASE resolve_dispute \/ resolve_lost
  BY <1>2 DEF resolve_dispute, resolve_lost, Committing, ChargeInv, OpHolds, Due
<1>3. CASE cancel
  BY <1>1, <1>3 DEF cancel, Committing, cancel_no_fee
<1>4. CASE withdraw
  BY <1>1, <1>4 DEF withdraw
<1>5. CASE depart \/ depart_lost
  <2>1. Held \in Pay
    BY <1>5, HeldLive DEF depart, depart_lost
  <2>2. \A v \in authorize_results(Held) : intent' = [intent EXCEPT ![Held] = v] => FALSE
    BY <2>1, AuthorizeCharge
  <2> QED BY <1>5, <2>2 DEF depart, depart_lost
<1>6. CASE capture \/ capture_lost
  BY <1>6 DEF capture, capture_lost, ChargeInv, JobHolds
<1>7. ASSUME NEW q \in Pay, retry_voids_ok(q) \/ retry_voids_error(q) PROVE FALSE
  <2>1. intent' = [intent EXCEPT ![q].st = "CANCELLED"]
    BY <1>7 DEF retry_voids_ok, retry_voids_error
  <2> QED BY <2>1 DEF IInv, TypeOK, View
<1>8. CASE provider_step
  <2>1. PICK q \in Pay, s \in ProviderStatus :
          <<intent[q].st, s>> \in provider_moves /\ intent' = [intent EXCEPT ![q].st = s]
    BY <1>8 DEF provider_step
  <2>2. s # "PAID"
    BY <2>1 DEF provider_moves
  <2> QED BY <2>1, <2>2 DEF IInv, TypeOK, View
<1>9. CASE panel_capture
  BY <1>9 DEF panel_capture, IInv, TypeOK
<1>10. CASE UNCHANGED intent
  BY <1>10
<1>11. CASE Requests
  BY <1>2, <1>3, <1>4, <1>5, <1>10, <1>11
  DEF Requests, accept, schedule, start, finish, approve, auto_approve, dispute, expire_requests, review, Begin, begin,
      release_technician_orders, rollback, set_payment_method, refresh
<1>12. CASE Worker
  BY <1>6, <1>7, <1>10, <1>12
  DEF Worker, webhook_lock, apply, job_fails, job_skips, capture_lock, webhook_fetch, reconcile, capture_select
<1> QED BY <1>8, <1>9, <1>10, <1>11, <1>12 DEF Next, vars

\* The app collects a charge only for an order that is approved or disputed at that moment, or as
\* the visit fee of a cancellation: the capture job's selection, made before it locks anything,
\* is never stale when it collects.
THEOREM CollectedWhenDue == Spec => CaptureIsDue
<1>1. IInv /\ ChargeInv /\ [Next]_vars =>
        [\A p \in Pay \ panel' :
           intent[p].st # "PAID" /\ intent'[p].st = "PAID" =>
             db.status \in {"COMPLETED", "DISPUTED"} \/ (otx.op = "cancel" /\ otx.arg = "ON_SITE")]_vars
  BY CollectsWhenDue DEF Due
<1> QED BY <1>1, Invariance, ChargeInvariance, PTL DEF Spec, CaptureIsDue

-------------------------------------------------------------------------------
(* The order and its payments agree, however requests and the worker's     *)
(* transactions overlap, and more when they do not (Serial); the run       *)
(* order_started shows that this part needs it.                            *)

Unsold == {"REQUESTED", "ACCEPTED"}
NoOrphan(d) == d.status \in Unsold \cup {"CANCELLED"} => \A p \in Pay : d.pay[p] \notin CANCELLABLE

\* A payment still open is current even when it was captured from the panel: its replacement,
\* inserted from what the provider said before, copies its quote.
Current(d, pn) ==
  d.status \notin Unsold =>
    \A p \in Pay : d.pay[p] \in CANCELLABLE \/ (d.pay[p] \in LIVE /\ p \notin pn) => d.quote[p] = d.deals
Secured(d) ==
  d.status \in {"IN_PROGRESS", "AWAITING_APPROVAL"} =>
    \A p \in Pay : d.pay[p] \in LIVE => d.pay[p] \in {"AUTHORIZED"} \cup AFTER_CAPTURE
RowsHold(d, pn) == NoOrphan(d) /\ Current(d, pn) /\ (Serial => Secured(d))
Fresh(os, d) == Serial => os = d.status

\* While a request holds the order no payment of it appears: the row it found is the live one.
\* When transactions do not overlap, what the worker read is still so when it writes.
Reads ==
  /\ otx.op # "none" => \A p \in Pay : db.pay[p] \in LIVE => otx.snap = p
  /\ wk.pc = "locked" => (Serial => otx.op = "none") /\ Fresh(wk.os, db)

AgreeInv == Reads /\ RowsHold(db, panel)

\* An order back in the pool has no live payment, unless one was captured from the panel.
LEMMA NoneUnsold ==
  ASSUME IInv, ChargeInv, AgreeInv, db.status \in Unsold
  PROVE  \A p \in Pay \ panel : db.pay[p] \notin LIVE
<1> SUFFICES ASSUME NEW p \in Pay \ panel, db.pay[p] \in LIVE PROVE FALSE
  OBVIOUS
<1>1. db.pay[p] \in AFTER_CAPTURE
  BY DEF AgreeInv, RowsHold, NoOrphan
<1>2. intent[p].st = "PAID"
  BY <1>1 DEF IInv, TypeOK, Row, RowInv, Core, PaidIsBooked, Booked
<1>3. db.status \in Late
  BY <1>2 DEF ChargeInv, PaidIsLate, AppPaid
<1> QED BY <1>3 DEF Late, Unsold

\* So the quote of a live payment not captured from the panel is the one in force, whatever the
\* status.
LEMMA LiveIsCurrent ==
  ASSUME IInv, ChargeInv, AgreeInv
  PROVE  \A p \in Pay : db.pay[p] \in CANCELLABLE \/ (db.pay[p] \in LIVE /\ p \notin panel)
                            => db.quote[p] = db.deals
<1>1. db.status \in Unsold => \A p \in Pay : db.pay[p] \notin CANCELLABLE
  BY DEF AgreeInv, RowsHold, NoOrphan
<1>2. db.status \in Unsold => \A p \in Pay \ panel : db.pay[p] \notin LIVE
  BY NoneUnsold
<1> QED BY <1>1, <1>2 DEF AgreeInv, RowsHold, Current

\* What the provider says keeps them in agreement, whatever order status was read before: only
\* an order that is sold has an open payment, so only such an order gets a replacement.
LEMMA AppliedRows ==
  ASSUME NEW d \in Row, NEW p \in Pay, NEW e, NEW st \in ProviderStatus, NEW os, NEW pn,
         Applied(d, e, p, st, os), RowsHold(d, pn), Fresh(os, d)
  PROVE  RowsHold(e, pn)
<1>0. \A q \in Pay : d.pay[q] \in PaymentStatus \cup {"NONE"}
  BY DEF Row
<1>1. /\ e.status \in Unsold \cup {"CANCELLED", "IN_PROGRESS", "AWAITING_APPROVAL"} => e.status = d.status
      /\ d.status \in Unsold => e.status = d.status
  BY DEF Applied, Unsold, RowsHold, NoOrphan
<1>2. d.status \in Unsold \cup {"CANCELLED"} => ~replaces(d, p, st, os)
  BY DEF replaces, RowsHold, NoOrphan
<1>3. NoOrphan(e)
  BY <1>0, <1>1, <1>2 DEF Applied, takes, RowsHold, NoOrphan
<1>4. ASSUME Serial PROVE Secured(e)
  <2>1. d.status \in {"IN_PROGRESS", "AWAITING_APPROVAL"} => ~replaces(d, p, st, os)
    BY <1>4 DEF replaces, Fresh
  <2>2. Secured(d)
    BY <1>4 DEF RowsHold
  <2> QED BY <1>0, <1>1, <2>1, <2>2 DEF Applied, takes, Secured
<1>5. Current(e, pn)
  <2> SUFFICES ASSUME e.status \notin Unsold, NEW q \in Pay,
                      e.pay[q] \in CANCELLABLE \/ (e.pay[q] \in LIVE /\ q \notin pn)
               PROVE  e.quote[q] = e.deals
    BY DEF Current
  <2>1. \A r \in Pay : d.pay[r] \in CANCELLABLE \/ (d.pay[r] \in LIVE /\ r \notin pn) => d.quote[r] = d.deals
    BY <1>1 DEF RowsHold, Current
  <2>2. e.deals = d.deals
    BY DEF Applied
  <2>3. CASE q = p
    BY <1>0, <2>1, <2>2, <2>3 DEF Applied, takes
  <2>4. CASE q # p
    BY <1>0, <2>1, <2>2, <2>4 DEF Applied, replaces
  <2> QED BY <2>3, <2>4
<1> QED BY <1>3, <1>4, <1>5 DEF RowsHold

\* Transactions that end.
LEMMA AgreeEnds ==
  ASSUME Reads, RowsHold(db', panel'),
         \/ OrderFree /\ UNCHANGED <<otx, wk>>
         \/ otx.op # "none" /\ otx' = NoTx /\ UNCHANGED wk
         \/ /\ wk' = Idle /\ UNCHANGED otx
            /\ otx.op = "none" \/ \A p \in Pay : db'.pay[p] \in LIVE => db.pay[p] \in LIVE
  PROVE  AgreeInv'
BY DEF Reads, Fresh, AgreeInv, OrderFree, NoTx, Idle

LEMMA OrderRequestsAgree ==
  ASSUME IInv, ChargeInv, AgreeInv,
         accept \/ schedule \/ start \/ finish \/ dispute \/ expire_requests \/ review
                \/ approve("C") \/ auto_approve
  PROVE  AgreeInv'
<1>0. db \in Row /\ Reads /\ OneLive(db) /\ RowsHold(db, panel) /\ db.status \in OrderStatus
  BY DEF IInv, TypeOK, AgreeInv, RowInv, Core, Row
<1>1. OrderFree /\ UNCHANGED <<otx, wk, panel>>
  BY DEF accept, schedule, start, finish, dispute, expire_requests, review, approve, auto_approve
<1>2. SUFFICES RowsHold(db', panel)
  BY <1>0, <1>1, AgreeEnds
<1>3. \A p \in Pay : db.pay[p] \in CANCELLABLE \/ (db.pay[p] \in LIVE /\ p \notin panel) => db.quote[p] = db.deals
  BY LiveIsCurrent
<1>4. CASE accept
  <2>1. db.status = "REQUESTED" /\ db'.pay = db.pay /\ db'.status = "ACCEPTED"
    BY <1>0, <1>4, MayTransition DEF accept, transition, Row
  <2> QED BY <1>0, <2>1 DEF RowsHold, NoOrphan, Secured, Current, Unsold
<1>5. CASE schedule
  <2> DEFINE e == transition(db, "SCHEDULED")
  <2>1. /\ db.status = "ACCEPTED" /\ e \in Row /\ e.pay = db.pay /\ e.quote = db.quote /\ e.deals = db.deals
        /\ e.status = "SCHEDULED" /\ e.deals \in 0..MaxDeals
    BY <1>0, <1>5, MayTransition, TransitionEffect DEF schedule, Row
  <2>2. db' = create_for_order(e) /\ Live(e) = Live(db) /\ Unused(e) = Unused(db)
    BY <1>5, <2>1 DEF schedule, Live, Unused
  <2> HIDE DEF e
  <2>3. CASE Live(e) # {}
    <3>1. db' = e
      BY <2>2, <2>3 DEF create_for_order
    <3> QED BY <1>3, <2>1, <3>1 DEF RowsHold, NoOrphan, Secured, Current, Unsold
  <2>4. CASE Live(e) = {}
    <3>1. Unused(e) # {} /\ db' = new_payment(e, e.deals)
      BY <1>5, <2>2, <2>4 DEF create_for_order, schedule
    <3>2. /\ db'.status = "SCHEDULED" /\ db'.deals = e.deals
          /\ \A q \in Pay : db'.pay[q] = e.pay[q] \/ db'.quote[q] = e.deals
      BY <2>1, <3>1, NewEffect
    <3>3. \A q \in Pay : e.pay[q] \notin LIVE
      BY <2>4 DEF Live
    <3> QED BY <3>2, <3>3 DEF RowsHold, NoOrphan, Secured, Current, Unsold
  <2> QED BY <2>3, <2>4
<1>6. CASE start
  <2>1. db.status = "SCHEDULED" /\ db' = transition(db, "IN_PROGRESS") /\ active_payment(db) # NoPay
        /\ db.pay[active_payment(db)] = "AUTHORIZED"
    BY <1>6, MayTransition DEF start
  <2>2. db'.pay = db.pay /\ db'.quote = db.quote /\ db'.deals = db.deals /\ db'.status = "IN_PROGRESS"
    BY <1>0, <2>1, TransitionEffect
  <2>3. active_payment(db) \in Pay
    BY <2>1, ActivePayment DEF Live
  <2>4. \A p \in Pay : db.pay[p] \in LIVE => db.pay[p] = "AUTHORIZED"
    BY <1>0, <2>1, <2>3 DEF OneLive
  <2> QED BY <1>3, <2>2, <2>4 DEF RowsHold, NoOrphan, Secured, Current, Unsold
<1>7. CASE finish \/ dispute \/ expire_requests
  <2>1. PICK s \in OrderStatus : /\ db' = transition(db, s)
                                 /\ \/ s = "AWAITING_APPROVAL" /\ db.status = "IN_PROGRESS"
                                    \/ s = "DISPUTED" \/ (s = "CANCELLED" /\ db.status = "REQUESTED")
    BY <1>7, MayTransition DEF finish, dispute, expire_requests
  <2>2. db'.pay = db.pay /\ db'.quote = db.quote /\ db'.deals = db.deals /\ db'.status = s
    BY <1>0, <2>1, TransitionEffect
  <2> QED BY <1>0, <1>3, <2>1, <2>2 DEF RowsHold, NoOrphan, Secured, Current, Unsold
<1>8. CASE review
  <2>1. db'.pay = db.pay /\ db'.quote = db.quote /\ db'.deals = db.deals /\ db'.status = "REVIEWED"
    BY <1>0, <1>8 DEF review, transition, Row
  <2> QED BY <1>3, <2>1 DEF RowsHold, NoOrphan, Secured, Current, Unsold
<1>9. CASE approve("C") \/ auto_approve
  <2>1. /\ db'.pay = db.pay /\ db'.quote = db.quote /\ db'.deals = db.deals
        /\ db'.status \in {"COMPLETED", "READY_FOR_REVIEW"}
    BY <1>0, <1>9, CompletedEffect DEF approve, auto_approve
  <2> QED BY <1>3, <2>1 DEF RowsHold, NoOrphan, Secured, Current, Unsold
<1> QED BY <1>4, <1>5, <1>6, <1>7, <1>8, <1>9

\* Taking the order row, giving it up, and the worker's steps that write no row.
LEMMA PicksAgree ==
  ASSUME IInv, AgreeInv,
         \/ Begin \/ rollback
         \/ webhook_lock \/ job_fails \/ job_skips \/ capture_lock
         \/ \E p \in Pay : webhook_fetch(p) \/ reconcile(p) \/ capture_select(p)
  PROVE  AgreeInv'
<1>0. UNCHANGED <<db, panel>> /\ wk \in Job
  BY DEF Begin, begin, rollback, release_technician_orders, webhook_lock, job_fails, job_skips, capture_lock,
         webhook_fetch, reconcile, capture_select, IInv, TypeOK
<1>1. SUFFICES Reads'
  BY <1>0 DEF AgreeInv
<1>2. CASE rollback
  BY <1>0, <1>2 DEF rollback, NoTx, AgreeInv, Reads
<1>3. CASE Begin
  <2>1. OrderFree /\ otx'.snap = active_payment(db) /\ UNCHANGED wk
    BY <1>3 DEF Begin, begin, release_technician_orders
  <2>2. active_payment(db) \in Live(db) \cup {NoPay} /\ (active_payment(db) = NoPay => Live(db) = {})
    BY ActivePayment
  <2>3. \A p \in Pay : db.pay[p] \in LIVE => p = active_payment(db)
    BY <2>2 DEF Live, IInv, RowInv, Core, OneLive
  <2>4. wk.pc = "locked" => ~Serial
    BY <2>1 DEF OrderFree
  <2> QED BY <1>0, <2>1, <2>3, <2>4 DEF Reads, Fresh
<1>4. CASE job_fails \/ job_skips
  BY <1>0, <1>4 DEF job_fails, job_skips, Idle, AgreeInv, Reads
<1>5. CASE webhook_lock \/ capture_lock
  <2>1. wk' = [wk EXCEPT !.pc = "locked", !.os = db.status] /\ UNCHANGED otx
    BY <1>5 DEF webhook_lock, capture_lock
  <2>2. Serial => otx.op = "none"
    BY <1>5 DEF webhook_lock, capture_lock, WorkerMayLock
  <2>3. Fresh(wk'.os, db)
    BY <1>0, <2>1 DEF Job, Fresh
  <2> QED BY <1>0, <2>1, <2>2, <2>3 DEF AgreeInv, Reads, Fresh
<1>6. ASSUME NEW p \in Pay, webhook_fetch(p) \/ reconcile(p) \/ capture_select(p) PROVE Reads'
  BY <1>0, <1>6 DEF webhook_fetch, reconcile, capture_select, WorkerMayLock, AgreeInv, Reads, Fresh
<1> QED BY <1>2, <1>3, <1>4, <1>5, <1>6

\* What the worker commits.  It inserts a payment only when no request holds the order.
LEMMA JobsAgree ==
  ASSUME IInv, ChargeInv, AgreeInv, apply \/ capture \/ capture_lost
  PROVE  AgreeInv'
<1>0. /\ wk.pc = "locked" /\ wk.p \in Pay /\ wk.view \in View /\ wk.os \in OrderStatus /\ wk' = Idle
      /\ UNCHANGED <<panel, otx>> /\ db \in Row /\ intent[wk.p] \in View /\ OneLive(db)
  BY DEF apply, capture, capture_lost, IInv, TypeOK, Job, ViewIsTrue, RowInv, Core
<1>1. Fresh(wk.os, db) /\ RowsHold(db, panel) /\ Reads
  BY <1>0 DEF AgreeInv, Reads
<1>2. ASSUME NEW v \in View, has_room(db, wk.p, v, wk.os), touches_order(db, wk.p, v, wk.os) => otx.op = "none",
             db' = apply_provider_state(db, wk.p, v, wk.os, Full)
      PROVE  AgreeInv'
  <2>1. Applied(db, db', wk.p, v.st, wk.os) /\ v.st \in ProviderStatus
    BY <1>0, <1>2, ApplyEffect DEF View
  <2>2. RowsHold(db', panel)
    BY <1>0, <1>1, <2>1, AppliedRows
  <2>3. \A q \in Pay : db'.pay[q] \in LIVE => db.pay[q] \in LIVE \/ replaces(db, wk.p, v.st, wk.os)
    BY <1>0, <2>1, AppliedPays
  <2>4. replaces(db, wk.p, v.st, wk.os) => otx.op = "none"
    BY <1>2 DEF replaces, touches_order
  <2> QED BY <1>0, <1>1, <2>2, <2>3, <2>4, AgreeEnds
<1>3. CASE apply
  BY <1>0, <1>2, <1>3 DEF apply
<1>4. CASE capture_lost
  BY <1>0, <1>1, <1>4, AgreeEnds DEF capture_lost
<1>5. CASE capture
  <2>1. PICK v : /\ v = (IF capture_answers(wk.p) THEN captured_view(wk.p, Full) ELSE intent[wk.p])
                 /\ has_room(db, wk.p, v, wk.os)
                 /\ touches_order(db, wk.p, v, wk.os) => otx.op = "none"
                 /\ db' = apply_provider_state(db, wk.p, v, wk.os, Full)
    BY <1>5 DEF capture
  <2>2. v \in View
    <3>1. CASE capture_answers(wk.p)
      <4>1. v = captured_view(wk.p, Full)
        BY <2>1, <3>1
      <4> QED BY <1>0, <4>1, FullPositive DEF captured_view, View
    <3>2. CASE ~capture_answers(wk.p)
      BY <1>0, <2>1, <3>2
    <3> QED BY <3>1, <3>2
  <2> QED BY <1>2, <2>1, <2>2
<1> QED BY <1>3, <1>4, <1>5

\* A request holds the order's live payment, and asking again finds the same.
LEMMA HeldIsLive ==
  ASSUME IInv, AgreeInv, otx.op # "none"
  PROVE  \A p \in Pay : db.pay[p] \in LIVE => p = Held /\ p = Again
<1>1. Again \in Live(db) \cup {NoPay} /\ (Again = NoPay => Live(db) = {})
  BY ActivePayment DEF Again
<1>2. \A p \in Pay : db.pay[p] \in LIVE => p = Again
  BY <1>1 DEF Live, IInv, RowInv, Core, OneLive
<1>3. \A p \in Pay : db.pay[p] \in LIVE => p = Held
  BY PayAssumption DEF AgreeInv, Reads, Held, still_live
<1> QED BY <1>2, <1>3

\* A commit that leaves no payment open.
LEMMA ClosedRows ==
  ASSUME IInv, ChargeInv, AgreeInv, NEW d, d.deals = db.deals, \A p \in Pay : d.quote[p] = db.quote[p],
         \A p \in Pay : d.pay[p] \in CANCELLABLE =>
           d.pay[p] = "AUTHORIZED" /\ db.pay[p] = "AUTHORIZED" /\ d.status \notin Unsold \cup {"CANCELLED"},
         \A p \in Pay : d.pay[p] \in LIVE => db.pay[p] \in LIVE
  PROVE  RowsHold(d, panel)
<1>1. NoOrphan(d)
  BY DEF NoOrphan
<1>2. Secured(d)
  BY DEF Secured
<1>3. Current(d, panel)
  BY LiveIsCurrent DEF Current
<1> QED BY <1>1, <1>2, <1>3 DEF RowsHold

\* The requests that depart, refresh, choose a card or lose their answer.
LEMMA RefreshAgree ==
  ASSUME IInv, ChargeInv, AgreeInv, set_payment_method \/ depart \/ depart_lost \/ refresh \/ resolve_lost
  PROVE  AgreeInv'
<1>0. /\ otx.op # "none" /\ otx' = NoTx /\ UNCHANGED <<wk, panel>> /\ db \in Row /\ Reads /\ RowsHold(db, panel)
      /\ Held \in Pay /\ db.status \in OrderStatus
  BY HeldLive DEF set_payment_method, depart, depart_lost, refresh, resolve_lost, Committing, IInv, TypeOK,
                  AgreeInv, Row
<1>1. SUFFICES RowsHold(db', panel)
  BY <1>0, AgreeEnds
<1>2. CASE /\ db'.pay = db.pay /\ db'.quote = db.quote /\ db'.deals = db.deals /\ db'.status = db.status
  BY <1>0, <1>2 DEF RowsHold, NoOrphan, Secured, Current
<1>3. CASE set_payment_method
  BY <1>0, <1>2, <1>3 DEF set_payment_method, Row
<1>4. CASE depart_lost \/ resolve_lost
  BY <1>2, <1>4 DEF depart_lost, resolve_lost
<1>5. CASE refresh
  <2>1. intent[Held] \in View /\ intent[Held].st \in ProviderStatus
    BY <1>0 DEF IInv, TypeOK, View
  <2>2. Applied(db, db', Held, intent[Held].st, db.status)
    BY <1>0, <1>5, <2>1, ApplyEffect DEF refresh
  <2>3. Fresh(db.status, db)
    BY DEF Fresh
  <2> QED BY <1>0, <2>1, <2>2, <2>3, AppliedRows
<1>6. CASE depart /\ UNCHANGED intent /\ db' = mark_departed(db, Held)
  BY <1>0, <1>2, <1>6 DEF mark_departed, Row
<1>7. CASE depart /\ ~(UNCHANGED intent /\ db' = mark_departed(db, Held))
  <2>1. PICK v \in authorize_results(Held) :
          /\ has_room(db, Held, v, "SCHEDULED")
          /\ intent' = [intent EXCEPT ![Held] = v]
          /\ db' = mark_departed(apply_provider_state(db, Held, v, "SCHEDULED", Full), Held)
    BY <1>7 DEF depart
  <2>2. v \in View /\ v.st \in ProviderStatus /\ db.status = "SCHEDULED"
    BY <1>0, <1>7, <2>1, AuthorizeIntent DEF View, depart, Committing, ChargeInv, OpHolds
  <2> DEFINE e == apply_provider_state(db, Held, v, "SCHEDULED", Full)
  <2>3. Applied(db, e, Held, v.st, "SCHEDULED")
    BY <1>0, <2>1, <2>2, ApplyEffect
  <2>4. e \in Row
    <3>1. RowInv(db, intent')
      BY <1>0, <2>1, AuthorizeIntent, SettledKeeps DEF IInv
    <3>2. v.st = "PAID" => intent'[Held] = v /\ v.rc # 0
      BY <1>0, <2>1, AuthorizeIntent
    <3> QED BY <1>0, <2>1, <2>2, <3>1, <3>2, FullPositive, ApplyRow DEF RowInv, Core
  <2> HIDE DEF e
  <2>5. RowsHold(e, panel)
    BY <1>0, <2>2, <2>3, AppliedRows DEF Fresh
  <2>6. db'.pay = e.pay /\ db'.quote = e.quote /\ db'.deals = e.deals /\ db'.status = e.status
    BY <2>1, <2>4 DEF mark_departed, e, Row
  <2> QED BY <2>5, <2>6 DEF RowsHold, NoOrphan, Secured, Current
<1> QED BY <1>3, <1>4, <1>5, <1>6, <1>7

\* Voiding the payment it holds, a request leaves none open.
LEMMA VoidLeavesNone ==
  ASSUME IInv, ChargeInv, AgreeInv, otx.op # "none", NEW d \in Row, NEW p \in Pay \cup {NoPay}, NEW ok \in BOOLEAN,
         d.pay = db.pay, d.quote = db.quote, d.deals = db.deals, p = Held \/ p = Again,
         NEW e, e = cancel_for_order(d, p, ok)
  PROVE  /\ e \in Row /\ e.status = d.status /\ e.quote = db.quote /\ e.deals = db.deals
         /\ \A q \in Pay : e.pay[q] \notin CANCELLABLE
         /\ \A q \in Pay : e.pay[q] \in LIVE => db.pay[q] \in LIVE
<1>1. /\ e \in Row /\ e.status = d.status /\ e.deals = d.deals /\ e.quote = d.quote
      /\ \A q \in Pay : e.pay[q] = IF q = p /\ d.pay[q] \in CANCELLABLE THEN "CANCELLED" ELSE d.pay[q]
  BY CancelEffect
<1>2. \A q \in Pay : db.pay[q] \in LIVE => q = p
  <2>1. \A q \in Pay : db.pay[q] \in LIVE => q = Held /\ q = Again
    BY HeldIsLive
  <2> QED BY <2>1
<1> QED BY <1>1, <1>2

LEMMA withdrawAgree ==
  ASSUME IInv, ChargeInv, AgreeInv, withdraw
  PROVE  AgreeInv'
<1>0. /\ otx.op # "none" /\ otx' = NoTx /\ UNCHANGED <<wk, panel>> /\ db \in Row /\ Reads
      /\ Held \in Pay \cup {NoPay}
  BY HeldLive DEF withdraw, Committing, IInv, TypeOK, AgreeInv
<1>1. PICK ok \in BOOLEAN : db' = transition(cancel_for_order(db, Held, ok), "REQUESTED")
  BY DEF withdraw
<1> DEFINE e == cancel_for_order(db, Held, ok)
<1>2. /\ e \in Row /\ e.quote = db.quote /\ e.deals = db.deals
      /\ \A q \in Pay : e.pay[q] \notin CANCELLABLE
      /\ \A q \in Pay : e.pay[q] \in LIVE => db.pay[q] \in LIVE
  BY <1>0, VoidLeavesNone
<1>3. db' = transition(e, "REQUESTED")
  BY <1>1
<1> HIDE DEF e
<1>4. db'.pay = e.pay /\ db'.quote = e.quote /\ db'.deals = e.deals
  BY <1>2, <1>3, TransitionEffect
<1>5. RowsHold(db', panel)
  BY <1>2, <1>4, ClosedRows
<1> QED BY <1>0, <1>5, AgreeEnds

\* A partial capture leaves the payment collected.
LEMMA PartialAgree ==
  ASSUME IInv, ChargeInv, AgreeInv, otx.op # "none", Held # NoPay, NEW s \in OrderStatus,
         NEW amount \in Amounts \ {0}, capture_partial(transition(db, s), Held, amount)
  PROVE  RowsHold(db', panel)
<1> DEFINE d == transition(db, s)
           v == captured_view(Held, amount)
<1>1. Held \in Pay
  BY HeldLive
<1>2. d \in Row /\ d.pay = db.pay /\ d.quote = db.quote /\ d.deals = db.deals
  BY TransitionEffect DEF IInv, TypeOK
<1>3. /\ d.pay[Held] = "AUTHORIZED" /\ intent' = [intent EXCEPT ![Held] = v]
      /\ db' = apply_provider_state(d, Held, v, d.status, amount)
  BY DEF capture_partial
<1>4. v \in View /\ v.st = "PAID"
  BY <1>1, <1>3, CaptureIntent
<1>5. d.status \in OrderStatus
  BY <1>2 DEF Row
<1> HIDE DEF d, v
<1>6. has_room(d, Held, v, d.status)
  BY <1>4 DEF has_room
<1>7. Applied(d, db', Held, "PAID", d.status)
  BY <1>1, <1>2, <1>3, <1>4, <1>5, <1>6, ApplyEffect
<1>8. /\ db'.pay[Held] = "PAID" /\ db'.deals = db.deals
      /\ \A q \in Pay : db'.quote[q] = db.quote[q]
      /\ \A q \in Pay \ {Held} : db'.pay[q] = db.pay[q]
  BY <1>1, <1>2, <1>3, <1>7 DEF Applied, takes, replaces
<1>9. \A q \in Pay : db.pay[q] \in LIVE => q = Held
  BY HeldIsLive
<1> QED BY <1>1, <1>2, <1>3, <1>8, <1>9, ClosedRows

\* A cancellation leaves no payment open, whichever way its fee goes.
LEMMA cancelAgree ==
  ASSUME IInv, ChargeInv, AgreeInv, cancel
  PROVE  AgreeInv'
<1>0. /\ otx.op # "none" /\ otx' = NoTx /\ UNCHANGED <<wk, panel>> /\ db \in Row /\ Reads
      /\ Held \in Pay \cup {NoPay} /\ Again \in Pay \cup {NoPay}
  BY HeldLive DEF cancel, Committing, IInv, TypeOK, AgreeInv
<1> SUFFICES RowsHold(db', panel)
  BY <1>0, AgreeEnds
<1> DEFINE e == transition(db, "CANCELLED")
<1>1. e \in Row /\ e.pay = db.pay /\ e.quote = db.quote /\ e.deals = db.deals /\ e.status = "CANCELLED"
  BY <1>0, TransitionEffect
<1>a. \A p \in Pay : db.pay[p] \in LIVE => p = Held
  BY <1>0, HeldIsLive
<1>b. /\ cancel_no_fee => \E ok \in BOOLEAN : db' = cancel_for_order(e, Again, ok)
      /\ \A fee : capture_partial_lost(Held, fee) => db' = cancel_for_order(e, Held, FALSE)
  BY DEF cancel_no_fee, capture_partial_lost
<1>c. /\ Held # NoPay /\ UNCHANGED intent /\ ~capture_answers(Held)
      /\ db' = apply_provider_state(transition(db, "CANCELLED"), Held, intent[Held], "CANCELLED", Full)
      => db' = apply_provider_state(e, Held, intent[Held], "CANCELLED", Full)
  OBVIOUS
<1> HIDE DEF e
<1>2. ASSUME NEW p \in Pay \cup {NoPay}, p = Held \/ p = Again, NEW ok \in BOOLEAN, db' = cancel_for_order(e, p, ok)
      PROVE  RowsHold(db', panel)
  <2> DEFINE f == cancel_for_order(e, p, ok)
  <2>1. /\ f.quote = db.quote /\ f.deals = db.deals
        /\ \A q \in Pay : f.pay[q] \notin CANCELLABLE
        /\ \A q \in Pay : f.pay[q] \in LIVE => db.pay[q] \in LIVE
    BY <1>0, <1>1, <1>2, VoidLeavesNone
  <2>2. db' = f
    BY <1>2
  <2> HIDE DEF f
  <2> QED BY <2>1, <2>2, ClosedRows
<1>3. CASE cancel_no_fee
  BY <1>0, <1>b, <1>2, <1>3
<1>4. CASE /\ Held # NoPay
           /\ \E fee \in Parts \cup {Full} : capture_partial(transition(db, "CANCELLED"), Held, fee)
  <2>1. PICK fee \in Parts \cup {Full} : capture_partial(transition(db, "CANCELLED"), Held, fee)
    BY <1>4
  <2>2. fee \in Amounts \ {0} /\ "CANCELLED" \in OrderStatus
    BY FullPositive
  <2> QED BY <1>0, <1>4, <2>1, <2>2, PartialAgree
<1>5. CASE \E fee \in Parts \cup {Full} : capture_partial_lost(Held, fee)
  <2>1. PICK ok \in BOOLEAN : ok = FALSE
    OBVIOUS
  <2>2. db' = cancel_for_order(e, Held, ok)
    BY <1>b, <1>5, <2>1
  <2> QED BY <1>0, <1>2, <2>2
<1>6. CASE /\ Held # NoPay /\ db.pay[Held] = "AUTHORIZED" /\ ~capture_answers(Held) /\ UNCHANGED intent
           /\ db' = apply_provider_state(transition(db, "CANCELLED"), Held, intent[Held], "CANCELLED", Full)
  <2>1. Held \in Pay /\ intent[Held] \in View /\ intent[Held].st = "CANCELLED"
    BY <1>0, <1>6 DEF IInv, TypeOK, ChargeInv, AuthKnown, Kept, capture_answers
  <2>2. has_room(e, Held, intent[Held], "CANCELLED")
    BY DEF has_room
  <2>3. db' = apply_provider_state(e, Held, intent[Held], "CANCELLED", Full)
    BY <1>c, <1>6
  <2>4. Applied(e, db', Held, "CANCELLED", "CANCELLED")
    BY <1>1, <2>1, <2>2, <2>3, ApplyEffect
  <2>5. /\ db'.pay[Held] = "CANCELLED" /\ db'.deals = db.deals
        /\ \A q \in Pay : db'.quote[q] = db.quote[q]
        /\ \A q \in Pay \ {Held} : db'.pay[q] = db.pay[q]
    BY <1>1, <1>6, <2>4 DEF Applied, takes, replaces
  <2> QED BY <1>a, <2>1, <2>5, ClosedRows
<1> QED BY <1>3, <1>4, <1>5, <1>6 DEF cancel

\* A dispute resolved closes the payment, collects it or leaves it to the capture job.
LEMMA resolve_disputeAgree ==
  ASSUME IInv, ChargeInv, AgreeInv, resolve_dispute
  PROVE  AgreeInv'
<1> DEFINE captured == Held # NoPay /\ db.pay[Held] \in PAYMENT_CONFIRMED
           authorized == Held # NoPay /\ db.pay[Held] = "AUTHORIZED"
<1>0. /\ otx.op # "none" /\ otx' = NoTx /\ UNCHANGED <<wk, panel>> /\ db \in Row /\ Reads
      /\ Held \in Pay \cup {NoPay} /\ Again \in Pay \cup {NoPay}
  BY HeldLive DEF resolve_dispute, Committing, IInv, TypeOK, AgreeInv
<1> SUFFICES RowsHold(db', panel)
  BY <1>0, AgreeEnds
<1>a. \A p \in Pay : db.pay[p] \in LIVE => p = Held
  BY <1>0, HeldIsLive
<1>b. after_payment(db) \in OrderStatus
  BY DEF after_payment
<1>1. CASE captured /\ db' = transition(db, after_payment(db))
  <2>1. db'.pay = db.pay /\ db'.quote = db.quote /\ db'.deals = db.deals
    BY <1>0, <1>b, <1>1, TransitionEffect
  <2> QED BY <1>a, <1>1, <2>1, ClosedRows
<1>2. CASE authorized /\ db' = _after_completed(transition(db, "COMPLETED"))
  <2>1. /\ db'.pay = db.pay /\ db'.quote = db.quote /\ db'.deals = db.deals
        /\ db'.status \in {"COMPLETED", "READY_FOR_REVIEW"}
    BY <1>0, <1>2, CompletedEffect
  <2>2. db'.status \notin Unsold \cup {"CANCELLED"}
    BY <2>1 DEF Unsold
  <2> QED BY <1>a, <1>2, <2>1, <2>2, ClosedRows
<1>3. CASE authorized /\ \E amount \in Parts : capture_partial(transition(db, after_payment(db)), Held, amount)
  <2>1. PICK amount \in Parts : capture_partial(transition(db, after_payment(db)), Held, amount)
    BY <1>3
  <2>2. amount \in Amounts \ {0}
    BY FullPositive
  <2> QED BY <1>0, <1>3, <1>b, <2>1, <2>2, PartialAgree
<1>4. CASE \E ok \in BOOLEAN : db' = transition(cancel_for_order(db, Again, ok), "CANCELLED")
  <2>1. PICK ok \in BOOLEAN : db' = transition(cancel_for_order(db, Again, ok), "CANCELLED")
    BY <1>4
  <2> DEFINE e == cancel_for_order(db, Again, ok)
  <2>2. /\ e \in Row /\ e.quote = db.quote /\ e.deals = db.deals
        /\ \A q \in Pay : e.pay[q] \notin CANCELLABLE
        /\ \A q \in Pay : e.pay[q] \in LIVE => db.pay[q] \in LIVE
    BY <1>0, VoidLeavesNone
  <2>3. db' = transition(e, "CANCELLED")
    BY <2>1
  <2> HIDE DEF e
  <2>4. db'.pay = e.pay /\ db'.quote = e.quote /\ db'.deals = e.deals
    BY <2>2, <2>3, TransitionEffect
  <2> QED BY <2>2, <2>4, ClosedRows
<1> QED BY <1>1, <1>2, <1>3, <1>4 DEF resolve_dispute

\* The provider's own steps and retry_voids change no payment row's status.
LEMMA ProviderAgree ==
  ASSUME IInv, AgreeInv, provider_step \/ panel_capture \/ \E p \in Pay : retry_voids_ok(p) \/ retry_voids_error(p)
  PROVE  AgreeInv'
<1>1. UNCHANGED <<otx, wk>> /\ panel \subseteq panel'
  BY DEF provider_step, panel_capture, retry_voids_ok, retry_voids_error
<1>2. db'.status = db.status /\ db'.pay = db.pay /\ db'.quote = db.quote /\ db'.deals = db.deals
  BY DEF provider_step, panel_capture, retry_voids_ok, retry_voids_error, IInv, TypeOK, Row
<1> QED BY <1>1, <1>2 DEF AgreeInv, Reads, Fresh, RowsHold, NoOrphan, Secured, Current

LEMMA AgreeInit == Init => AgreeInv
<1> SUFFICES ASSUME Init PROVE AgreeInv
  OBVIOUS
<1>1. /\ otx.op = "none" /\ wk.pc = "idle" /\ db.status = "REQUESTED" /\ \A p \in Pay : db.pay[p] = "NONE"
  BY DEF Init, NoTx, Idle
<1> QED BY <1>1 DEF AgreeInv, Reads, RowsHold, NoOrphan, Secured, Current, Unsold

LEMMA AgreeStep == IInv /\ ChargeInv /\ AgreeInv /\ [Next]_vars => AgreeInv'
<1> SUFFICES ASSUME IInv, ChargeInv, AgreeInv, [Next]_vars PROVE AgreeInv'
  OBVIOUS
<1>1. CASE Requests
  BY <1>1, OrderRequestsAgree, PicksAgree, RefreshAgree, withdrawAgree, cancelAgree, resolve_disputeAgree
     DEF Requests
<1>2. CASE Worker
  BY <1>2, PicksAgree, JobsAgree, ProviderAgree DEF Worker
<1>3. CASE provider_step \/ panel_capture
  BY <1>3, ProviderAgree
<1>4. CASE UNCHANGED vars
  BY <1>4 DEF vars, AgreeInv, Reads, Fresh, RowsHold, NoOrphan, Secured, Current
<1> QED BY <1>1, <1>2, <1>3, <1>4 DEF Next

LEMMA AgreeInvariance == Spec => []AgreeInv
BY AgreeInit, AgreeStep, Invariance, ChargeInvariance, PTL DEF Spec

\* A cancelled, withdrawn or released order keeps no payment that could still be charged, however
\* late the provider's events are, whatever answers are lost, whatever is captured from its panel
\* and however the worker's transactions overlap the requests: the replacement it inserts needs
\* the order row.
THEOREM NoOrphanLeft == Spec => []NoOrphanPayment
<1>1. AgreeInv => NoOrphanPayment
  BY DEF AgreeInv, RowsHold, NoOrphan, NoOrphanPayment, Live, Unsold
<1> QED BY <1>1, AgreeInvariance, PTL

\* What the live payment charges is what was agreed in the deal in force, unless finance captured
\* it from the provider's panel: no payment of an earlier technician survives a withdrawal, and a
\* replacement keeps the quote.
THEOREM QuoteStaysCurrent == Spec => []QuoteIsCurrent
<1>1. AgreeInv => QuoteIsCurrent
  BY DEF AgreeInv, RowsHold, Current, QuoteIsCurrent, Live, Unsold
<1> QED BY <1>1, AgreeInvariance, PTL

\* While no request overlaps a transaction of the worker, the live payment of work under way is
\* authorized or further on: what start read of the payment is still so when it writes the order,
\* and no event undoes it afterwards.
THEOREM StartedSecuredWhenSerial ==
  ASSUME Serial
  PROVE  Spec => []StartedIsSecured
<1>1. AgreeInv => StartedIsSecured
  BY DEF AgreeInv, RowsHold, Secured, StartedIsSecured, Live
<1> QED BY <1>1, AgreeInvariance, PTL
=============================================================================
