----------------------------- MODULE OrderPayment -----------------------------
(***************************************************************************)
(* One service order, the SERVICE payments it goes through, and the        *)
(* payment provider that really holds the money.                           *)
(*                                                                         *)
(*   db      the committed rows: the order, its payments, the void queue   *)
(*   intent  the provider's own record of each charge                      *)
(*   otx     the request in flight: it holds the ORDER row lock and waits  *)
(*           for the row lock of the live payment                          *)
(*   wk      the background worker: it holds a PAYMENT row lock and needs   *)
(*           the order row only when it commits                            *)
(*                                                                         *)
(* Requests lock the order first (get_for_user(lock=True), lock_order) and *)
(* the payment second (active_payment(lock=True)); the worker's jobs lock  *)
(* the payment first and the order second, or read the order unlocked.     *)
(* Handlers are operators from rows to rows, named as in the code, because *)
(* in the code they call one another inside one transaction.               *)
(***************************************************************************)
EXTENDS StateMachines, Integers, FiniteSets

CONSTANTS
  Pay,              \* payment rows this order may use (bounds the replacements)
  NoPay,            \* None where the code has Payment | None
  Full,             \* payments.amount_cents: what the quote charges
  Parts,            \* amounts below Full that are the charge of some price (price + VAT)
  Odd,              \* amounts below Full that no price charges (VAT is rounded per price)
  MaxDeals,         \* bound on how many times the order is accepted
  MaxVoidAttempts,  \* WEBHOOK_MAX_ATTEMPTS, the cap retry_voids uses
  MaxPanel,         \* bound on captures made from the provider's panel
  Serial            \* TRUE: requests and worker transactions never overlap

ASSUME PayAssumption == NoPay \notin Pay /\ IsFiniteSet(Pay)
ASSUME AmountAssumption == Full \in Nat \ {0} /\ Parts \subseteq 1..(Full - 1) /\ Odd \subseteq (1..(Full - 1)) \ Parts
ASSUME BoundAssumption ==
  MaxDeals \in Nat /\ MaxVoidAttempts \in Nat \ {0} /\ MaxPanel \in Nat /\ Serial \in BOOLEAN

VARIABLES db, intent, panel, otx, wk
vars == <<db, intent, panel, otx, wk>>

Amounts == Parts \cup Odd \cup {0, Full}
ProviderStatus == {"NONE", "REQUIRES_ACTION", "PROCESSING", "AUTHORIZED", "PAID", "FAILED", "CANCELLED"}
View == [st : ProviderStatus, rc : Amounts]
NoIntent == [st |-> "NONE", rc |-> 0]

Row == [status : OrderStatus, departed : BOOLEAN, reviewed : BOOLEAN, deals : 0..MaxDeals,
        pay : [Pay -> PaymentStatus \cup {"NONE"}], pid : [Pay -> BOOLEAN], card : [Pay -> BOOLEAN],
        quote : [Pay -> 0..MaxDeals], captured : [Pay -> Amounts],
        void : [Pay -> 0..(MaxVoidAttempts + 1)], alert : SUBSET Pay, mismatch : SUBSET Pay]

Tx == [op : {"none", "set_payment_method", "depart", "refresh", "cancel", "withdraw", "resolve_dispute"},
       snap : Pay \cup {NoPay},
       arg : {"NONE", "ON_SITE", "LATE", "RELEASE", "PARTIAL_REFUND", "FULL_REFUND"}]
Job == [pc : {"idle", "fetched", "selected", "locked"}, p : Pay \cup {NoPay}, view : View, os : OrderStatus]
NoTx == [op |-> "none", snap |-> NoPay, arg |-> "NONE"]
Idle == [pc |-> "idle", p |-> NoPay, view |-> NoIntent, os |-> "REQUESTED"]

-------------------------------------------------------------------------------
(* Reading the payments of the order.                                      *)

Live(d) == {p \in Pay : d.pay[p] \in LIVE}
active_payment(d) == IF Live(d) = {} THEN NoPay ELSE CHOOSE p \in Live(d) : TRUE
Unused(d) == {p \in Pay : d.pay[p] = "NONE"}

\* What SELECT ... FOR UPDATE returns once the wait is over (READ COMMITTED): the
\* row it found before waiting if that row still matches, and never a newer row.
still_live(d, p) == IF p # NoPay /\ d.pay[p] \in LIVE THEN p ELSE NoPay

-------------------------------------------------------------------------------
(* app/payments/service.py: what one transaction does to the rows.         *)

move(d, p, to) == [d EXCEPT !.pay[p] = to]

\* orders.transition's writes; going back to REQUESTED drops the technician and the price.
transition(d, to) == [d EXCEPT !.status = to]

new_payment(d, deal) ==
  LET n == CHOOSE q \in Unused(d) : TRUE
  IN  [d EXCEPT !.pay[n] = "PENDING", !.quote[n] = deal]

create_for_order(d) == IF Live(d) # {} THEN d ELSE new_payment(d, d.deals)

_replacement(d, p) == new_payment(d, d.quote[p])

on_payment_captured(d) == IF d.status = "COMPLETED" THEN transition(d, "READY_FOR_REVIEW") ELSE d

\* os: the order status this session loaded earlier, unlocked and never refreshed.
on_payment_failed(d, os) == IF os \in {"SCHEDULED", "COMPLETED"} THEN transition(d, "FAILED") ELSE d

\* Mutant: books the quote whatever was collected.
mark_captured_as_quoted(d, p, received, expected) ==
  on_payment_captured([move(d, p, "PAID") EXCEPT !.captured[p] = expected])

\* expected: the amount of the breakdown in force (QUOTE = Full, CAPTURE = a part).
mark_captured(d, p, received, expected) ==
  LET asQuoted  == received \in {0, expected}
      recompute == expected = Full /\ received \in Parts
      booked    == IF asQuoted \/ ~recompute THEN expected ELSE received
  IN  on_payment_captured(
        [move(d, p, "PAID") EXCEPT !.captured[p] = booked,
                                   !.mismatch = IF asQuoted \/ recompute THEN @ ELSE @ \cup {p}])

\* Mutant: inserts the replacement and leaves the failed payment as it was.
mark_failed_keeps(d, p, os) ==
  IF os # "SCHEDULED" THEN on_payment_failed(d, os) ELSE [_replacement(d, p) EXCEPT !.departed = FALSE]

mark_failed(d, p, os) ==
  LET e == move(d, p, "FAILED")
  IN  IF os # "SCHEDULED" THEN on_payment_failed(e, os)
      ELSE [_replacement(e, p) EXCEPT !.departed = FALSE]

_cancelled_by_provider(d, p, os) ==
  LET e == move(d, p, "CANCELLED")
  IN  IF os = "SCHEDULED" THEN [_replacement(e, p) EXCEPT !.departed = FALSE] ELSE e

\* Mutant: a late authorization is left alone; only a late capture is handled.
late_success_without_void(d, p, v) ==
  IF v.st = "AUTHORIZED" THEN d ELSE [d EXCEPT !.alert = @ \cup {p}]

\* Mutant: a late authorization brings the dead payment back.
late_success_revives(d, p, v) == IF v.st = "AUTHORIZED" THEN move(d, p, "AUTHORIZED") ELSE d

\* Mutant: a late capture is treated as a late authorization.
late_success_without_alert(d, p, v) == [d EXCEPT !.void[p] = IF @ = 0 THEN 1 ELSE @]

\* void[p] = 0: no unprocessed payment.void_requested row; k: one with k-1 failed attempts.
_late_success_on_dead_payment(d, p, v) ==
  IF v.st = "AUTHORIZED"
  THEN [d EXCEPT !.void[p] = IF @ = 0 THEN 1 ELSE @]
  ELSE [d EXCEPT !.alert = @ \cup {p}]

apply_provider_state(d, p, v, os, expected) ==
  LET before == d.pay[p]
      e == [d EXCEPT !.pid[p] = TRUE]
  IN  IF v.st = before THEN e
      ELSE CASE v.st = "AUTHORIZED" /\ before \in CANCELLABLE -> move(e, p, "AUTHORIZED")
             [] v.st = "PAID" /\ before \in CANCELLABLE -> mark_captured(e, p, v.rc, expected)
             [] v.st = "REQUIRES_ACTION" /\ before = "PENDING" -> move(e, p, "REQUIRES_ACTION")
             [] v.st = "PROCESSING" /\ before \in {"PENDING", "REQUIRES_ACTION"} -> move(e, p, "PROCESSING")
             [] v.st = "FAILED" /\ before \in CANCELLABLE -> mark_failed(e, p, os)
             [] v.st = "CANCELLED" /\ before \in CANCELLABLE -> _cancelled_by_provider(e, p, os)
             [] v.st \in {"AUTHORIZED", "PAID"} /\ before \in {"FAILED", "CANCELLED"} ->
                  _late_success_on_dead_payment(e, p, v)
             [] OTHER -> e

\* payment_state_machine.move raises: the transaction (or its savepoint) is rolled back.
raises(d, p, v) ==
  v.st = "CANCELLED" /\ d.pay[p] \in CANCELLABLE /\ ~can_move(d.pay[p], "CANCELLED")

\* Mutant: a payment that was never authorized is not voided.
voids_authorized_only(d, p) == p # NoPay /\ d.pay[p] = "AUTHORIZED"

voids(d, p) == p # NoPay /\ d.pay[p] \in CANCELLABLE

\* ok: the provider confirmed the cancellation; otherwise it is queued for retry_voids.
cancel_for_order(d, p, ok) ==
  IF ~voids(d, p) THEN d
  ELSE [move(d, p, "CANCELLED") EXCEPT !.departed = FALSE,
                                       !.void[p] = IF d.pid[p] /\ ~ok THEN 1 ELSE @]

-------------------------------------------------------------------------------
(* Row locks.  The order row: free when no request holds it.  A payment row *)
(* is locked by the worker from the moment its job selects it FOR UPDATE; a *)
(* request that asked for it has it, or is next in its queue.               *)

OrderFree == otx.op = "none" /\ (Serial => wk.pc # "locked")
PaymentFree(p) == wk.pc = "locked" => wk.p # p
WorkerMayLock(p) == otx.op # "none" => ~Serial /\ otx.snap # p

\* The worker's transaction needs the order row: it moves the order, clears departed_at, or
\* inserts a payment, whose foreign key takes FOR KEY SHARE on the row a request holds FOR UPDATE.
\* When that request waits for the payment in turn, one of the two is aborted (rollback, job_fails).
touches_order(d, p, v, os) ==
  /\ d.pay[p] \in CANCELLABLE
  /\ v.st \in {"PAID", "FAILED"} \/ (v.st = "CANCELLED" /\ os = "SCHEDULED")

\* Bound: Pay still has a row for the replacement this step inserts.
has_room(d, p, v, os) ==
  v.st \in {"FAILED", "CANCELLED"} /\ d.pay[p] \in CANCELLABLE /\ os = "SCHEDULED" => Unused(d) # {}

-------------------------------------------------------------------------------
(* Requests that read no payment row under lock: one step each.            *)

accept ==
  /\ OrderFree /\ may_transition(db.status, "ACCEPTED", "T")
  /\ db.deals < MaxDeals
  /\ db' = [transition(db, "ACCEPTED") EXCEPT !.deals = @ + 1]
  /\ UNCHANGED <<intent, panel, otx, wk>>

schedule ==
  /\ OrderFree /\ may_transition(db.status, "SCHEDULED", "T")
  /\ Live(db) = {} => Unused(db) # {}
  /\ db' = create_for_order(transition(db, "SCHEDULED"))
  /\ UNCHANGED <<intent, panel, otx, wk>>

\* Mutant: the work starts with any live payment.
start_unsecured ==
  /\ OrderFree /\ may_transition(db.status, "IN_PROGRESS", "T")
  /\ active_payment(db) # NoPay
  /\ db' = transition(db, "IN_PROGRESS")
  /\ UNCHANGED <<intent, panel, otx, wk>>

\* The live payment is read without a lock.
start ==
  /\ OrderFree /\ may_transition(db.status, "IN_PROGRESS", "T")
  /\ active_payment(db) # NoPay /\ db.pay[active_payment(db)] = "AUTHORIZED"
  /\ db' = transition(db, "IN_PROGRESS")
  /\ UNCHANGED <<intent, panel, otx, wk>>

finish ==
  /\ OrderFree /\ may_transition(db.status, "AWAITING_APPROVAL", "T")
  /\ db' = transition(db, "AWAITING_APPROVAL")
  /\ UNCHANGED <<intent, panel, otx, wk>>

\* Mutants: the payment is not looked at, or the order is left to the capture job.
after_completed_unchecked(d) == on_payment_captured(d)
after_completed_leaves(d) == d

\* Also reads the live payment without a lock.
_after_completed(d) ==
  IF active_payment(d) # NoPay /\ d.pay[active_payment(d)] \in PAYMENT_CONFIRMED
  THEN on_payment_captured(d) ELSE d

approve(who) ==
  /\ OrderFree /\ db.status = "AWAITING_APPROVAL" /\ may_transition(db.status, "COMPLETED", who)
  /\ db' = _after_completed(transition(db, "COMPLETED"))
  /\ UNCHANGED <<intent, panel, otx, wk>>

\* auto_approve and approve_before_authorization_expires: the client did not answer in time.
auto_approve == approve("S")

dispute ==
  /\ OrderFree /\ may_transition(db.status, "DISPUTED", "C")
  /\ db' = transition(db, "DISPUTED")
  /\ UNCHANGED <<intent, panel, otx, wk>>

expire_requests ==
  /\ OrderFree /\ db.status = "REQUESTED"
  /\ db' = transition(db, "CANCELLED")
  /\ UNCHANGED <<intent, panel, otx, wk>>

review ==
  /\ OrderFree /\ db.status = "READY_FOR_REVIEW" /\ may_transition(db.status, "REVIEWED", "C")
  /\ active_payment(db) # NoPay /\ db.pay[active_payment(db)] \in PAYMENT_CONFIRMED
  /\ db' = [transition(db, "REVIEWED") EXCEPT !.reviewed = TRUE]
  /\ UNCHANGED <<intent, panel, otx, wk>>

-------------------------------------------------------------------------------
(* Requests that lock the order and then the live payment: the first step  *)
(* takes the order row and starts the payment query, the second one has    *)
(* the payment row, calls the provider and commits.                        *)

scenario_for(d) ==
  IF d.departed /\ active_payment(d) # NoPay /\ d.pay[active_payment(d)] = "AUTHORIZED" THEN "ON_SITE"
  ELSE IF d.status = "REQUESTED" THEN "NONE" ELSE "LATE"

begin(op, arg) ==
  /\ OrderFree
  /\ otx' = [op |-> op, snap |-> active_payment(db), arg |-> arg]
  /\ UNCHANGED <<db, intent, panel, wk>>

\* The technician lost the approval or the payment account: the orders not started go back.
release_technician_orders == may_transition(db.status, "REQUESTED", "S") /\ begin("withdraw", "NONE")

Begin ==
  \/ db.status = "SCHEDULED" /\ begin("set_payment_method", "NONE")
  \/ db.status = "SCHEDULED" /\ begin("depart", "NONE")
  \/ begin("refresh", "NONE")
  \/ may_transition(db.status, "CANCELLED", "C") /\ begin("cancel", scenario_for(db))
  \/ may_transition(db.status, "REQUESTED", "T") /\ begin("withdraw", "NONE")
  \/ release_technician_orders
  \/ \E outcome \in {"RELEASE", "PARTIAL_REFUND", "FULL_REFUND"} :
       db.status = "DISPUTED" /\ begin("resolve_dispute", outcome)

\* The payment row the request ends up holding.
Held == still_live(db, otx.snap)
HasPaymentLock == otx.snap # NoPay => PaymentFree(otx.snap)
Committing(op) == otx.op = op /\ HasPaymentLock /\ otx' = NoTx

\* A refusal (a guard of the handler, move raising), a crash, a statement timeout or a
\* deadlock abort: the transaction leaves no trace in the rows.
rollback ==
  /\ otx.op # "none"
  /\ otx' = NoTx
  /\ UNCHANGED <<db, intent, panel, wk>>

set_payment_method ==
  /\ Committing("set_payment_method")
  /\ Held # NoPay /\ db.pay[Held] = "PENDING"
  /\ db' = [db EXCEPT !.card[Held] = TRUE]
  /\ UNCHANGED <<intent, panel, wk>>

\* provider.authorize: a new charge, or the existing one for the same payment
\* (idempotency key authorize:{payment}).  Bound: it declines only while a row is left.
authorize_results(p) ==
  IF intent[p].st # "NONE" THEN {intent[p]}
  ELSE {[st |-> s, rc |-> 0] : s \in {"AUTHORIZED", "REQUIRES_ACTION", "PROCESSING"}
                                     \cup (IF Unused(db) # {} THEN {"FAILED"} ELSE {})}

mark_departed(d, p) == IF d.pay[p] = "AUTHORIZED" THEN [d EXCEPT !.departed = TRUE] ELSE d

depart ==
  /\ Committing("depart")
  /\ Held # NoPay
  /\ \/ /\ db.pay[Held] \in {"AUTHORIZED", "PROCESSING"}
        /\ db' = mark_departed(db, Held)
        /\ UNCHANGED intent
     \/ /\ db.pay[Held] = "PENDING" /\ db.card[Held]
        /\ \E v \in authorize_results(Held) :
             /\ ~raises(db, Held, v) /\ has_room(db, Held, v, "SCHEDULED")
             /\ intent' = [intent EXCEPT ![Held] = v]
             /\ db' = mark_departed(apply_provider_state(db, Held, v, "SCHEDULED", Full), Held)
  /\ UNCHANGED <<panel, wk>>

\* The charge was created but the answer never arrived: the request rolls back.
depart_lost ==
  /\ Committing("depart")
  /\ Held # NoPay /\ db.pay[Held] = "PENDING" /\ db.card[Held]
  /\ \E v \in authorize_results(Held) : intent' = [intent EXCEPT ![Held] = v]
  /\ UNCHANGED <<db, panel, wk>>

refresh ==
  /\ Committing("refresh")
  /\ Held # NoPay /\ db.pid[Held]
  /\ ~raises(db, Held, intent[Held]) /\ has_room(db, Held, intent[Held], db.status)
  /\ db' = apply_provider_state(db, Held, intent[Held], db.status, Full)
  /\ UNCHANGED <<intent, panel, wk>>

\* provider.cancel_authorization for a payment being cancelled: confirmed, refused or not
\* answered (the hold may or may not be gone).  Nothing is sent while no provider id is known.
provider_cancel(p, ok) ==
  IF voids(db, p) /\ db.pid[p]
  THEN \/ ok /\ intent[p].st # "PAID" /\ intent' = [intent EXCEPT ![p].st = "CANCELLED"]
       \/ ~ok /\ UNCHANGED intent
       \/ ~ok /\ intent[p].st # "PAID" /\ intent' = [intent EXCEPT ![p].st = "CANCELLED"]
  ELSE ok /\ UNCHANGED intent

may_void(p) == voids(db, p) => can_move(db.pay[p], "CANCELLED")

\* Mutant: the order goes back to the pool with its payment.
withdraw_keeps_payment ==
  /\ Committing("withdraw")
  /\ db' = transition(db, "REQUESTED")
  /\ UNCHANGED <<intent, panel, wk>>

withdraw ==
  /\ Committing("withdraw")
  /\ may_void(Held)
  /\ \E ok \in BOOLEAN :
       /\ provider_cancel(Held, ok)
       /\ db' = transition(cancel_for_order(db, Held, ok), "REQUESTED")
  /\ UNCHANGED <<panel, wk>>

\* cancel_for_order asks again for the live payment, in a statement of its own.
Again == active_payment(db)
AgainFree == Again # NoPay => PaymentFree(Again)

cancel_no_fee ==
  /\ AgainFree /\ may_void(Again)
  /\ \E ok \in BOOLEAN :
       /\ provider_cancel(Again, ok)
       /\ db' = cancel_for_order(transition(db, "CANCELLED"), Again, ok)

\* provider.capture: idempotent for a charge already captured, refused unless authorized.
capture_answers(p) == intent[p].st \in {"AUTHORIZED", "PAID"}
captured_view(p, amount) == IF intent[p].st = "PAID" THEN intent[p] ELSE [st |-> "PAID", rc |-> amount]

capture_partial(d, p, amount) ==
  /\ d.pay[p] = "AUTHORIZED" /\ d.pid[p] /\ capture_answers(p)
  /\ intent' = [intent EXCEPT ![p] = captured_view(p, amount)]
  /\ db' = apply_provider_state(d, p, captured_view(p, amount), d.status, amount)

\* The visit fee was captured but the answer was lost: the handler falls back to voiding the
\* payment, which the provider refuses because it is already collected.
capture_partial_lost(p, amount) ==
  /\ capture_answers(p)
  /\ intent' = [intent EXCEPT ![p] = captured_view(p, amount)]
  /\ db' = cancel_for_order(transition(db, "CANCELLED"), p, FALSE)

cancel ==
  /\ Committing("cancel")
  /\ IF otx.arg = "ON_SITE" /\ Held # NoPay /\ db.pay[Held] = "AUTHORIZED"
     THEN \/ \E fee \in Parts \cup {Full} : capture_partial(transition(db, "CANCELLED"), Held, fee)
          \/ \E fee \in Parts \cup {Full} : capture_partial_lost(Held, fee)
          \/ /\ ~capture_answers(Held)          \* a fee equal to the charge: capture() asks for the real state
             /\ db' = apply_provider_state(transition(db, "CANCELLED"), Held, intent[Held], "CANCELLED", Full)
             /\ UNCHANGED intent
          \/ cancel_no_fee
     ELSE cancel_no_fee
  /\ UNCHANGED <<panel, wk>>

after_payment(d) == IF d.reviewed THEN "REVIEWED" ELSE "READY_FOR_REVIEW"

resolve_dispute ==
  /\ Committing("resolve_dispute")
  /\ LET captured == Held # NoPay /\ db.pay[Held] \in PAYMENT_CONFIRMED
         authorized == Held # NoPay /\ db.pay[Held] = "AUTHORIZED"
     IN \/ /\ otx.arg = "RELEASE" /\ captured
           /\ db' = transition(db, after_payment(db))
           /\ UNCHANGED intent
        \/ /\ otx.arg = "RELEASE" /\ authorized
           /\ db' = _after_completed(transition(db, "COMPLETED"))
           /\ UNCHANGED intent
        \/ /\ otx.arg = "PARTIAL_REFUND" /\ captured
           /\ db' = transition(db, after_payment(db))
           /\ UNCHANGED intent
        \/ /\ otx.arg = "PARTIAL_REFUND" /\ authorized
           /\ \E amount \in Parts : capture_partial(transition(db, after_payment(db)), Held, amount)
        \/ /\ otx.arg = "FULL_REFUND" /\ ~captured
           /\ AgainFree /\ may_void(Again)
           /\ \E ok \in BOOLEAN :
                /\ provider_cancel(Again, ok)
                /\ db' = transition(cancel_for_order(db, Again, ok), "CANCELLED")
  /\ UNCHANGED <<panel, wk>>

\* The partial capture of a dispute went through but its answer was lost: the request fails.
resolve_lost ==
  /\ Committing("resolve_dispute") /\ otx.arg = "PARTIAL_REFUND"
  /\ Held # NoPay /\ db.pay[Held] = "AUTHORIZED" /\ db.pid[Held] /\ capture_answers(Held)
  /\ \E amount \in Parts : intent' = [intent EXCEPT ![Held] = captured_view(Held, amount)]
  /\ UNCHANGED <<db, panel, wk>>

-------------------------------------------------------------------------------
(* The worker (worker/jobs.py): one process at a time, one job at a time.  *)
(* Each job selects its payment, locks it, and commits.                    *)

\* A webhook for any charge may be waiting in the inbox at any time (late, repeated); the
\* handler reads the real state from the provider BEFORE it locks the payment.
webhook_fetch(p) ==
  /\ wk.pc = "idle"
  /\ intent[p].st # "NONE"
  /\ wk' = [pc |-> "fetched", p |-> p, view |-> intent[p], os |-> "REQUESTED"]
  /\ UNCHANGED <<db, intent, panel, otx>>

\* mark_failed and _cancelled_by_provider read the order here, with db.get and no lock.
webhook_lock ==
  /\ wk.pc = "fetched" /\ WorkerMayLock(wk.p)
  /\ wk' = [wk EXCEPT !.pc = "locked", !.os = db.status]
  /\ UNCHANGED <<db, intent, panel, otx>>

\* reconcile reads the provider under the payment lock; an error that is not the provider's
\* on any payment rolls the whole run back.
reconcile(p) ==
  /\ wk.pc = "idle" /\ WorkerMayLock(p)
  /\ intent[p].st # "NONE"
  /\ ~db.pid[p] \/ ~consistent(db.pay[p], intent[p].st)
  /\ \A q \in Pay : ~raises(db, q, intent[q])
  /\ wk' = [pc |-> "locked", p |-> p, view |-> intent[p], os |-> db.status]
  /\ UNCHANGED <<db, intent, panel, otx>>

apply ==
  /\ wk.pc = "locked" /\ wk.view.st # "NONE"
  /\ ~raises(db, wk.p, wk.view) /\ has_room(db, wk.p, wk.view, wk.os)
  /\ touches_order(db, wk.p, wk.view, wk.os) => otx.op = "none"
  /\ db' = apply_provider_state(db, wk.p, wk.view, wk.os, Full)
  /\ wk' = Idle
  /\ UNCHANGED <<intent, panel, otx>>

\* A crash, a deadlock abort or a provider that does not answer, at any moment of a job: its
\* savepoint is rolled back and the work waits for the next cycle.
job_fails ==
  /\ wk.pc # "idle"
  /\ wk' = Idle
  /\ UNCHANGED <<db, intent, panel, otx>>

\* Mutant: only the payments of disputed orders are picked.
capture_select_disputed(p) ==
  /\ wk.pc = "idle"
  /\ db.pay[p] = "AUTHORIZED" /\ db.status = "DISPUTED"
  /\ wk' = [pc |-> "selected", p |-> p, view |-> NoIntent, os |-> "REQUESTED"]
  /\ UNCHANGED <<db, intent, panel, otx>>

\* capture_due (orders COMPLETED) and enforce_capture_deadline (orders DISPUTED, near expiry)
\* select their payments first and lock them later.
capture_select(p) ==
  /\ wk.pc = "idle"
  /\ db.pay[p] = "AUTHORIZED" /\ db.status \in {"COMPLETED", "DISPUTED"}
  /\ wk' = [pc |-> "selected", p |-> p, view |-> NoIntent, os |-> "REQUESTED"]
  /\ UNCHANGED <<db, intent, panel, otx>>

\* Mutant: the status is not read again under the lock.
capture_lock_unchecked ==
  /\ wk.pc = "selected" /\ WorkerMayLock(wk.p)
  /\ wk' = [wk EXCEPT !.pc = "locked", !.os = db.status]
  /\ UNCHANGED <<db, intent, panel, otx>>

capture_lock ==
  /\ wk.pc = "selected" /\ WorkerMayLock(wk.p)
  /\ db.pay[wk.p] = "AUTHORIZED"
  /\ wk' = [wk EXCEPT !.pc = "locked", !.os = db.status]
  /\ UNCHANGED <<db, intent, panel, otx>>

\* capture: the provider's answer, or its real state when it refuses.
capture ==
  /\ wk.pc = "locked" /\ wk.view.st = "NONE"
  /\ db.pid[wk.p]
  /\ LET v == IF capture_answers(wk.p) THEN captured_view(wk.p, Full) ELSE intent[wk.p]
     IN  /\ ~raises(db, wk.p, v) /\ has_room(db, wk.p, v, wk.os)
         /\ touches_order(db, wk.p, v, wk.os) => otx.op = "none"
         /\ intent' = [intent EXCEPT ![wk.p] = v]
         /\ db' = apply_provider_state(db, wk.p, v, wk.os, Full)
  /\ wk' = Idle
  /\ UNCHANGED <<panel, otx>>

\* The provider captured and the answer (or the commit) was lost.
capture_lost ==
  /\ wk.pc = "locked" /\ wk.view.st = "NONE"
  /\ db.pid[wk.p] /\ capture_answers(wk.p)
  /\ intent' = [intent EXCEPT ![wk.p] = captured_view(wk.p, Full)]
  /\ wk' = Idle
  /\ UNCHANGED <<db, panel, otx>>

\* Nothing to do: the selected payment is no longer AUTHORIZED.  Nothing possible: move raises,
\* and the event goes back to the inbox (or, after WEBHOOK_MAX_ATTEMPTS, is DEAD).
job_skips ==
  /\ \/ wk.pc = "selected" /\ db.pay[wk.p] # "AUTHORIZED"
     \/ wk.pc = "locked" /\ wk.view.st # "NONE" /\ raises(db, wk.p, wk.view)
  /\ wk' = Idle
  /\ UNCHANGED <<db, intent, panel, otx>>

retry_voids_ok(p) ==
  /\ wk.pc = "idle" /\ db.void[p] \in 1..MaxVoidAttempts
  /\ intent[p].st # "PAID"
  /\ intent' = [intent EXCEPT ![p].st = "CANCELLED"]
  /\ db' = [db EXCEPT !.void[p] = 0]
  /\ UNCHANGED <<panel, otx, wk>>

\* Mutant: attempts are not capped.
retry_voids_uncapped(p) ==
  /\ wk.pc = "idle" /\ db.void[p] # 0
  /\ db' = [db EXCEPT !.void[p] = @ + 1]
  /\ UNCHANGED <<intent, panel, otx, wk>>

retry_voids_error(p) ==
  /\ wk.pc = "idle" /\ db.void[p] \in 1..MaxVoidAttempts
  /\ db' = [db EXCEPT !.void[p] = @ + 1]
  /\ \/ UNCHANGED intent
     \/ intent[p].st # "PAID" /\ intent' = [intent EXCEPT ![p].st = "CANCELLED"]
  /\ UNCHANGED <<panel, otx, wk>>

-------------------------------------------------------------------------------
(* The provider and the bank, on their own (external).                     *)

provider_moves ==
  ({"REQUIRES_ACTION"} \X {"AUTHORIZED", "PROCESSING", "FAILED", "CANCELLED"})
  \cup ({"PROCESSING"} \X {"AUTHORIZED", "FAILED"})
  \cup {<<"AUTHORIZED", "CANCELLED">>}                    \* the hold expires or is released
  \cup ({"FAILED"} \X {"AUTHORIZED", "CANCELLED"})         \* a late 3D Secure success

provider_step ==
  \E p \in Pay, s \in ProviderStatus :
    /\ <<intent[p].st, s>> \in provider_moves
    /\ s \in {"FAILED", "CANCELLED"} => Unused(db) # {}     \* bound: a row is left for the replacement
    /\ intent' = [intent EXCEPT ![p].st = s]
    /\ UNCHANGED <<db, panel, otx, wk>>

panel_capture ==
  \E p \in Pay, amount \in Amounts \ {0} :
    /\ intent[p].st = "AUTHORIZED" /\ Cardinality(panel) < MaxPanel
    /\ intent' = [intent EXCEPT ![p] = [st |-> "PAID", rc |-> amount]]
    /\ panel' = panel \cup {p}
    /\ UNCHANGED <<db, otx, wk>>

-------------------------------------------------------------------------------
Init ==
  /\ db = [status |-> "REQUESTED", departed |-> FALSE, reviewed |-> FALSE, deals |-> 0,
           pay |-> [p \in Pay |-> "NONE"], pid |-> [p \in Pay |-> FALSE],
           card |-> [p \in Pay |-> FALSE], quote |-> [p \in Pay |-> 0],
           captured |-> [p \in Pay |-> 0], void |-> [p \in Pay |-> 0],
           alert |-> {}, mismatch |-> {}]
  /\ intent = [p \in Pay |-> NoIntent]
  /\ panel = {}
  /\ otx = NoTx
  /\ wk = Idle

Requests ==
  \/ accept \/ schedule \/ start \/ finish \/ approve("C") \/ auto_approve
  \/ dispute \/ expire_requests \/ review
  \/ Begin \/ rollback
  \/ set_payment_method \/ depart \/ depart_lost \/ refresh
  \/ withdraw \/ cancel \/ resolve_dispute \/ resolve_lost

Worker ==
  \/ webhook_lock \/ apply \/ job_fails \/ job_skips
  \/ capture_lock \/ capture \/ capture_lost
  \/ \E p \in Pay : webhook_fetch(p) \/ reconcile(p) \/ capture_select(p) \/ retry_voids_ok(p) \/ retry_voids_error(p)

Next == Requests \/ Worker \/ provider_step \/ panel_capture

Spec == Init /\ [][Next]_vars

\* A job that ends without having done or found nothing to do.
Killed == capture_lost \/ (job_fails /\ ~job_skips /\ ~apply /\ ~capture)

\* The worker cycles through its jobs for ever (capture_due, process_webhooks, retry_voids), so
\* each job that stays possible for a payment is tried, and one that is not killed ends; a
\* request ends too (statement_timeout).  Requests may go on for ever; crashes, deadlock aborts
\* that hit the worker, rows it skips because they are locked and lost answers do not.
Fairness ==
  /\ WF_vars(rollback) /\ WF_vars(job_skips)
  /\ SF_vars(webhook_lock \/ capture_lock \/ apply \/ capture)
  /\ \A p \in Pay :
       /\ SF_vars(webhook_fetch(p) /\ ~consistent(db.pay[p], intent[p].st))
       /\ SF_vars(capture_select(p))
       /\ SF_vars(retry_voids_ok(p))
  /\ <>[][~Killed]_vars

FairSpec == Spec /\ Fairness

-------------------------------------------------------------------------------
(* Properties.                                                             *)

\* Rows, provider records and in-flight transactions keep their types.
TypeOK ==
  /\ db \in Row
  /\ intent \in [Pay -> View]
  /\ panel \subseteq Pay
  /\ otx \in Tx
  /\ wk \in Job

\* The order never has two live SERVICE payments, whatever the interleaving: replacements,
\* rescheduling and late events never need the unique index to stop them.
OneLivePayment == \A p, q \in Live(db) : p = q

\* Money is booked only when the provider collected it, and for what the provider collected,
\* unless finance was told of the difference (payment.capture_amount_mismatch).
BookedIsCollected ==
  \A p \in Pay : db.captured[p] # 0 =>
    /\ intent[p].st = "PAID"
    /\ db.captured[p] = intent[p].rc \/ p \in db.mismatch

\* An order the client may rate, or has rated, has a captured payment.
ReviewableIsPaid ==
  db.status \in {"PAID", "READY_FOR_REVIEW", "REVIEWED"} =>
    \E p \in Pay : db.pay[p] \in AFTER_CAPTURE /\ db.captured[p] > 0

\* Approval and capture never miss each other: an approved order whose payment is captured
\* has already moved on (the unlocked read of _after_completed is safe).
NoMissedCapture == db.status = "COMPLETED" => \A p \in Live(db) : db.pay[p] \notin PAYMENT_CONFIRMED

\* The app collects at most one of the order's charges.
ChargedOnce == \A p, q \in Pay \ panel : intent[p].st = "PAID" /\ intent[q].st = "PAID" => p = q

\* The app collects only for approved or disputed work, or a visit fee in a cancellation.
CaptureIsDue ==
  [][\A p \in Pay \ panel' :
       intent[p].st # "PAID" /\ intent'[p].st = "PAID" =>
         db.status \in {"COMPLETED", "DISPUTED"} \/ (otx.op = "cancel" /\ otx.arg = "ON_SITE")]_vars

\* A withdrawn, released or cancelled order keeps no payment that could still be charged.
NoOrphanPayment ==
  db.status \in {"REQUESTED", "ACCEPTED", "CANCELLED"} => \A p \in Live(db) : db.pay[p] \notin CANCELLABLE

\* What an order charges is what was agreed with the technician it has now, unless finance
\* captured the charge from the provider's panel before the order was agreed again.
QuoteIsCurrent ==
  db.status \notin {"REQUESTED", "ACCEPTED"} => \A p \in Live(db) \ panel : db.quote[p] = db.deals

\* Work under way has an authorized (or collected) payment, or none that could be charged.
StartedIsSecured ==
  db.status \in {"IN_PROGRESS", "AWAITING_APPROVAL"} =>
    \A p \in Live(db) : db.pay[p] \in {"AUTHORIZED"} \cup AFTER_CAPTURE

\* Approved work is collected, or its lost authorization is noticed.
EventuallyCollected ==
  \A p \in Pay : db.status = "COMPLETED" /\ db.pay[p] = "AUTHORIZED" ~> db.pay[p] # "AUTHORIZED"

\* What the provider collected is booked, or finance is told: no lost answer hides a charge.
CollectedIsKnown ==
  \A p \in Pay : intent[p].st = "PAID" ~> db.captured[p] # 0 \/ p \in db.alert

\* A hold on the card of a client whose payment is dead is released, unless retry_voids gave up.
HoldReleased ==
  \A p \in Pay : intent[p].st = "AUTHORIZED" /\ db.pay[p] \in {"FAILED", "CANCELLED"}
                  ~> intent[p].st # "AUTHORIZED" \/ db.void[p] > MaxVoidAttempts

\* "The provider's state rules": a payment whose charge the provider cancelled stops being open.
ExpiryNoticed ==
  \A p \in Pay : intent[p].st = "CANCELLED" /\ db.pay[p] \in CANCELLABLE ~> db.pay[p] \notin CANCELLABLE
=============================================================================
