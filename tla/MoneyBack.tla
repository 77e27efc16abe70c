------------------------------- MODULE MoneyBack -------------------------------
(***************************************************************************)
(* One collected payment and everything that can give its money back:      *)
(* refunds asked by the client, by finance or by the resolution of a       *)
(* dispute, refunds made from the provider's panel, and chargebacks; with  *)
(* the ledger they are posted to and the order they may close.             *)
(*                                                                         *)
(*   db    the committed rows: payment, order, review, refunds, chargebacks *)
(*         and the balance of each ledger account                          *)
(*   prov  the provider's record of each refund                            *)
(*   bank  the bank's record of each chargeback                            *)
(*   tx    the transaction that holds the payment row lock while it waits  *)
(*         for the provider's answer to a refund                           *)
(*   wk    the webhook the worker is processing                            *)
(*                                                                         *)
(* Every handler that moves money locks the payment row (_lock_payment)    *)
(* before it decides, so only one is under way; what overlaps with it is    *)
(* what does not need that lock: the worker's reads, reject,               *)
(* submit_evidence and the client's steps on the order.                    *)
(***************************************************************************)
EXTENDS StateMachines, Integers, FiniteSets, FiniteSetsExt

CONSTANTS
  Refunds,      \* refunds the app may create (bounds how many)
  Outside,      \* refunds made from the provider's panel
  Disputes,     \* chargebacks the bank may open
  Amounts,      \* amounts that are asked for, besides "all that is left"
  Contested,    \* amounts a chargeback may be for
  Technician, Commission, Vat, Withholding,   \* effective_breakdown: the parts of the charge
  Faults,       \* bound: which policies the reasons asked for have (see RefundRow)
  Threshold,    \* REFUND_DOUBLE_APPROVAL_CENTS
  Admins, High, \* finance staff, and those with REFUNDS_APPROVE_HIGH
  Client, Nobody

ASSUME SplitAssumption == /\ Technician \in Nat /\ Commission \in Nat /\ Vat \in Nat /\ Withholding \in Nat
                          /\ Technician + Commission + Vat + Withholding > 0
ASSUME AmountsAssumption == /\ Amounts \subseteq Nat \ {0} /\ Contested \subseteq Nat \ {0}
                            /\ Threshold \in Nat /\ Faults \subseteq BOOLEAN
ASSUME IdsAssumption == /\ Refunds \cap Outside = {} /\ High \subseteq Admins
                        /\ Client \notin Admins /\ Nobody \notin Admins \cup {Client}
                        /\ IsFiniteSet(Refunds \cup Outside)

VARIABLES db, prov, bank, tx, wk
vars == <<db, prov, bank, tx, wk>>

Captured == Technician + Commission + Vat + Withholding
All == Refunds \cup Outside
Cents == 0..Captured
Account == {"CUSTOMER", "TECHNICIAN_PAYABLE", "PLATFORM_REVENUE", "VAT_PAYABLE", "TAX_WITHHELD", "REFUNDS"}

RefundStatus == {"REQUESTED", "APPROVED", "PENDING", "SUCCEEDED", "FAILED", "REJECTED"}
OPEN == {"REQUESTED", "APPROVED", "PENDING"}
REFUNDABLE == PAYMENT_CONFIRMED
DisputeStatus == {"NEEDS_RESPONSE", "UNDER_REVIEW", "WON", "LOST"}

\* fault: the policy of the reason.  TRUE: the technician's (both parts are recovered);
\* FALSE: the platform's (it absorbs everything).  REASONS has no other combination.
RefundRow == [status : RefundStatus \cup {"NONE"}, amount : Cents, fault : BOOLEAN,
              by : Admins \cup {Client, Nobody}, signer : Admins \cup {Nobody}]
NoRefund == [status |-> "NONE", amount |-> 0, fault |-> FALSE, by |-> Nobody, signer |-> Nobody]

\* "reverted": failed after having succeeded, which the provider reports as failed.
ProviderRefund == [st : {"none", "pending", "succeeded", "failed", "reverted"}, amount : Cents]
NoneYet == [st |-> "none", amount |-> 0]

Row == [pay : {"PAID", "PARTIALLY_REFUNDED", "REFUNDED", "DISPUTED", "CHARGED_BACK"}, refunded : Cents,
        order : {"READY_FOR_REVIEW", "REVIEWED", "DISPUTED", "REFUNDED", "CANCELLED"},
        review : {"none", "public", "hidden"}, refund : [All -> RefundRow],
        dispute : [Disputes -> DisputeStatus \cup {"NONE"}], ledger : [Account -> -Captured..Captured]]
Answer == {"pending", "succeeded", "failed", "rejected", "retryable"}
Tx == [op : {"none", "create", "approve", "retry"}, r : All \cup {Nobody}, row : RefundRow, ans : Answer,
       after : OrderStatus \cup {"SAME"}]
Job == [pc : {"idle", "fetched", "found", "unknown", "dispute"}, id : All \cup Disputes \cup {Nobody},
        view : ProviderRefund, st : DisputeStatus \cup {"NONE"}]
NoTx == [op |-> "none", r |-> Nobody, row |-> NoRefund, ans |-> "pending", after |-> "SAME"]
Idle == [pc |-> "idle", id |-> Nobody, view |-> NoneYet, st |-> "NONE"]

\* The rows a handler has to lock: the payment, and one refund (held from _find on).
PaymentFree == tx.op = "none"
RefundFree(r) == tx.r # r /\ (wk.pc = "found" => wk.id # r)

-------------------------------------------------------------------------------
(* app/payments/ledger.py and refunds.py: what one transaction writes.     *)

\* ledger.post: a group of entries (the balances it changes); it always adds up to zero.
post(d, lines) == [d EXCEPT !.ledger = [a \in Account |-> @[a] + IF a \in DOMAIN lines THEN lines[a] ELSE 0]]

\* Mutants: no account of what was returned before; the signature looks at one refund alone.
refundable_cents_of_charge(d) == Captured
needs_high_approval_each(d, amount) == amount > Threshold

Open(d) == {r \in All : d.refund[r].status \in OPEN}

\* What is in flight is nothing: both callers have checked that no refund is open.
refundable_cents(d) == Captured - d.refunded

needs_high_approval(d, amount) == d.refunded + amount > Threshold

\* Mutant: every part is rounded up.
share_rounded_up(part, amount) == (part * amount + Captured - 1) \div Captured

share(part, amount) == (part * amount) \div Captured

\* Each part is rounded down; the platform absorbs the remainder.
allocate(amount, fault) ==
  LET technician  == IF fault THEN share(Technician, amount) ELSE 0
      commission  == IF fault THEN share(Commission, amount) ELSE 0
      vat         == IF fault THEN share(Vat, amount) ELSE 0
      withholding == IF fault THEN share(Withholding, amount) ELSE 0
  IN  [technician |-> technician, commission |-> commission, vat |-> vat, withholding |-> withholding,
       platform |-> amount - technician - commission - vat - withholding]

post_refund_allocation(d, amount, fault) ==
  LET a == allocate(amount, fault)
  IN  post(d, [CUSTOMER |-> amount, TECHNICIAN_PAYABLE |-> -a.technician, PLATFORM_REVENUE |-> -a.commission,
               VAT_PAYABLE |-> -a.vat, TAX_WITHHELD |-> -a.withholding, REFUNDS |-> -a.platform])

\* Mutant: the order is closed and the review stays.
on_full_refund_keeps_review(d) ==
  IF d.order \in {"DISPUTED", "READY_FOR_REVIEW", "REVIEWED"} THEN [d EXCEPT !.order = "REFUNDED"] ELSE d

\* orders.on_full_refund, with reviews.hide_for_refund.
on_full_refund(d) ==
  IF d.order \in {"DISPUTED", "READY_FOR_REVIEW", "REVIEWED"}
  THEN [d EXCEPT !.order = "REFUNDED", !.review = IF @ = "none" THEN @ ELSE "hidden"]
  ELSE d

\* Mutant: a refund confirmed during a chargeback takes the payment out of DISPUTED.
succeed_leaves_dispute(d, r) ==
  LET total == d.refunded + d.refund[r].amount
  IN  [post_refund_allocation(d, d.refund[r].amount, d.refund[r].fault) EXCEPT
         !.refund[r].status = "SUCCEEDED", !.refunded = total,
         !.pay = IF total >= Captured THEN "REFUNDED" ELSE "PARTIALLY_REFUNDED"]

\* A payment in a chargeback stays DISPUTED; its closing counts what was refunded.
_succeed(d, r) ==
  LET amount == d.refund[r].amount
      total  == d.refunded + amount
      full   == total >= Captured
      e == [post_refund_allocation(d, amount, d.refund[r].fault) EXCEPT
              !.refund[r].status = "SUCCEEDED",
              !.refunded = IF full THEN Captured ELSE total,
              !.pay = IF @ = "DISPUTED" THEN @ ELSE IF full THEN "REFUNDED" ELSE "PARTIALLY_REFUNDED"]
  IN  IF full THEN on_full_refund(e) ELSE e

\* move raises when the payment can no longer take the refund: the transaction is rolled back.
raises(d, r) ==
  /\ d.pay # "DISPUTED"
  /\ ~can_move(d.pay, IF d.refunded + d.refund[r].amount >= Captured THEN "REFUNDED" ELSE "PARTIALLY_REFUNDED")

_fail(d, r) == [d EXCEPT !.refund[r].status = "FAILED"]

\* Mutants: a repeated event is booked again; a pending refund is taken for a confirmed one;
\* what comes after PENDING is ignored.
apply_provider_refund_again(d, r, st) ==
  IF st = "succeeded" /\ d.refund[r].status \in {"APPROVED", "PENDING", "SUCCEEDED"} THEN _succeed(d, r) ELSE d
apply_provider_refund_early(d, r, st) ==
  IF st \in {"pending", "succeeded"} /\ d.refund[r].status \in {"APPROVED", "PENDING"} THEN _succeed(d, r) ELSE d
apply_provider_refund_no_pending(d, r, st) ==
  IF st = "succeeded" /\ d.refund[r].status = "APPROVED" THEN _succeed(d, r)
  ELSE IF st = "pending" /\ d.refund[r].status = "APPROVED" THEN [d EXCEPT !.refund[r].status = "PENDING"] ELSE d

apply_provider_refund(d, r, st) ==
  CASE st = "succeeded" /\ d.refund[r].status \in {"APPROVED", "PENDING"} -> _succeed(d, r)
    [] st \in {"failed", "reverted"} /\ d.refund[r].status \in {"APPROVED", "PENDING"} -> _fail(d, r)
    [] st = "pending" /\ d.refund[r].status = "APPROVED" -> [d EXCEPT !.refund[r].status = "PENDING"]
    [] OTHER -> d

\* What execute does with the provider's answer; a network error leaves the refund APPROVED.
settle(d, r, ans) ==
  CASE ans = "retryable" -> d
    [] ans = "rejected"  -> _fail(d, r)
    [] OTHER             -> apply_provider_refund(d, r, ans)

transition(d, to) == IF to = "SAME" THEN d ELSE [d EXCEPT !.order = to]

-------------------------------------------------------------------------------
(* Refunds: creation, signatures, execution.                               *)

\* Guard of _create (and the index of one open refund per payment).
may_create(r, amount) ==
  /\ PaymentFree /\ db.refund[r].status = "NONE" /\ prov[r].st = "none"      \* a fresh id
  /\ db.pay \in REFUNDABLE /\ Open(db) = {}
  /\ 0 < amount /\ amount <= refundable_cents(db)

\* amount_cents given, or None: all that is left.
asked == Amounts \cup {refundable_cents(db)}

request_by_client(r) ==
  \E amount \in asked, fault \in Faults :
    /\ db.order \in {"READY_FOR_REVIEW", "REVIEWED"}
    /\ may_create(r, amount)
    /\ db' = [db EXCEPT !.refund[r] = [status |-> "REQUESTED", amount |-> amount, fault |-> fault,
                                       by |-> Client, signer |-> Nobody]]
    /\ UNCHANGED <<prov, bank, tx, wk>>

\* provider.refund (external): idempotent per refund (refund:{id}); never more than was collected.
in_use == {q \in All : prov[q].st \in {"pending", "succeeded"}}
fits(amount) == MapThenSumSet(LAMBDA q : prov[q].amount, in_use) + amount <= Captured

answer_of(st) == IF st = "reverted" THEN "failed" ELSE st

\* Sends refund r and keeps the payment locked until the answer is committed.
execute(op, r, row, after) ==
  \E ans \in Answer :
    /\ tx' = [op |-> op, r |-> r, row |-> row, ans |-> ans, after |-> after]
    /\ \/ prov[r].st # "none" /\ ans \in {answer_of(prov[r].st), "retryable"} /\ UNCHANGED prov
       \/ /\ prov[r].st = "none" /\ fits(row.amount) /\ ans \in {"pending", "succeeded", "failed"}
          /\ prov' = [prov EXCEPT ![r] = [st |-> ans, amount |-> row.amount]]
       \/ /\ prov[r].st = "none" /\ fits(row.amount) /\ ans = "retryable"      \* accepted, answer lost
          /\ \E st \in {"pending", "succeeded"} : prov' = [prov EXCEPT ![r] = [st |-> st, amount |-> row.amount]]
       \/ prov[r].st = "none" /\ ans = "retryable" /\ UNCHANGED prov
       \/ prov[r].st = "none" /\ ans = "rejected" /\ UNCHANGED prov            \* e.g. balance_insufficient
    /\ UNCHANGED <<db, bank, wk>>

create_by_finance(r, who, amount, fault, after) ==
  /\ may_create(r, amount)
  /\ LET row == [status |-> "REQUESTED", amount |-> amount, fault |-> fault, by |-> who, signer |-> Nobody]
     IN  IF needs_high_approval(db, amount)
         THEN /\ db' = transition([db EXCEPT !.refund[r] = row], after)
              /\ UNCHANGED <<prov, bank, tx, wk>>
         ELSE execute("create", r, [row EXCEPT !.status = "APPROVED"], after)

create_refund(r) ==
  \E who \in Admins, amount \in asked, fault \in Faults : create_by_finance(r, who, amount, fault, "SAME")

approve(r, who) ==
  /\ RefundFree(r) /\ PaymentFree /\ db.refund[r].status = "REQUESTED" /\ db.refund[r].by # who
  /\ needs_high_approval(db, db.refund[r].amount) => who \in High
  /\ db.pay \in REFUNDABLE
  /\ execute("approve", r, [db.refund[r] EXCEPT !.status = "APPROVED", !.signer = who], "SAME")

\* Locks the refund and not the payment.
reject(r) ==
  /\ RefundFree(r) /\ db.refund[r].status = "REQUESTED"
  /\ db' = [db EXCEPT !.refund[r].status = "REJECTED"]
  /\ UNCHANGED <<prov, bank, tx, wk>>

\* Mutant: a refund the payment can no longer take is left for ever.
retry_approved_skips(r) ==
  /\ PaymentFree /\ wk.pc = "idle" /\ db.refund[r].status = "APPROVED"
  /\ db.pay \in REFUNDABLE
  /\ execute("retry", r, db.refund[r], "SAME")

\* The worker sends again what is still APPROVED; a chargeback opened meanwhile fails it unsent.
retry_approved(r) ==
  /\ PaymentFree /\ wk.pc = "idle" /\ db.refund[r].status = "APPROVED"
  /\ IF db.pay \in REFUNDABLE
     THEN execute("retry", r, db.refund[r], "SAME")
     ELSE db' = _fail(db, r) /\ UNCHANGED <<prov, bank, tx, wk>>

commit ==
  /\ tx.op # "none"
  /\ db' = transition(settle([db EXCEPT !.refund[tx.r] = tx.row], tx.r, tx.ans), tx.after)
  /\ tx' = NoTx
  /\ UNCHANGED <<prov, bank, wk>>

\* A crash, or the deadlock of payment-then-order against order-then-payment: the provider has
\* answered and the rows do not know.
abort ==
  /\ tx.op # "none"
  /\ tx' = NoTx
  /\ UNCHANGED <<db, prov, bank, wk>>

-------------------------------------------------------------------------------
(* The order: rating it, disputing it, resolving the dispute.              *)

\* The payment is read without a lock.
review ==
  /\ db.order = "READY_FOR_REVIEW" /\ db.pay \in PAYMENT_CONFIRMED
  /\ db' = [db EXCEPT !.order = "REVIEWED", !.review = "public"]
  /\ UNCHANGED <<prov, bank, tx, wk>>

dispute ==
  /\ may_transition(db.order, "DISPUTED", "C")
  /\ db' = transition(db, "DISPUTED")
  /\ UNCHANGED <<prov, bank, tx, wk>>

after_payment(d) == IF d.review # "none" THEN "REVIEWED" ELSE "READY_FOR_REVIEW"

resolve_release ==
  /\ PaymentFree /\ db.order = "DISPUTED" /\ db.pay \in PAYMENT_CONFIRMED
  /\ db' = transition(db, after_payment(db))
  /\ UNCHANGED <<prov, bank, tx, wk>>

resolve_partial(r) ==
  /\ db.order = "DISPUTED" /\ db.pay \in PAYMENT_CONFIRMED
  /\ \E who \in Admins, amount \in Amounts :
       /\ amount < Captured - db.refunded
       /\ create_by_finance(r, who, amount, TRUE, after_payment(db))

resolve_full(r) ==
  /\ db.order = "DISPUTED" /\ db.pay \in PAYMENT_CONFIRMED
  /\ \E who \in Admins : create_by_finance(r, who, refundable_cents(db), TRUE, "SAME")

\* "captured" is false for a payment in a chargeback too: there is nothing to void, and the order
\* is cancelled.
resolve_full_unpaid ==
  /\ PaymentFree /\ db.order = "DISPUTED" /\ db.pay \notin PAYMENT_CONFIRMED
  /\ db' = transition(db, "CANCELLED")
  /\ UNCHANGED <<prov, bank, tx, wk>>

-------------------------------------------------------------------------------
(* The worker: events about refunds.  The state is read from the provider  *)
(* and the refund is looked up before the payment is locked.               *)

webhook_fetch(r) ==
  /\ wk.pc = "idle" /\ tx.op # "retry" /\ prov[r].st # "none"
  /\ wk' = [pc |-> "fetched", id |-> r, view |-> prov[r], st |-> "NONE"]
  /\ UNCHANGED <<db, prov, bank, tx>>

\* By the provider's id or the id in its metadata; waits for a transaction that holds the row.
_find ==
  /\ wk.pc = "fetched" /\ (tx.op \in {"approve", "retry"} => tx.r # wk.id)
  /\ wk' = [wk EXCEPT !.pc = IF db.refund[wk.id].status = "NONE" THEN "unknown" ELSE "found"]
  /\ UNCHANGED <<db, prov, bank, tx>>

\* The payment was charged back: the confirmation raises, on every delivery.
unbookable ==
  wk.view.st = "succeeded" /\ db.refund[wk.id].status \in {"APPROVED", "PENDING"} /\ raises(db, wk.id)

_on_refund ==
  /\ wk.pc = "found" /\ PaymentFree /\ ~unbookable
  /\ db' = apply_provider_refund(db, wk.id, wk.view.st)
  /\ wk' = Idle
  /\ UNCHANGED <<prov, bank, tx>>

outside_amount == IF wk.view.amount < Captured - db.refunded THEN wk.view.amount ELSE Captured - db.refunded

recordable ==
  /\ db.refund[wk.id].status = "NONE" /\ Open(db) = {}           \* two unique indexes
  /\ db.pay \in REFUNDABLE /\ wk.view.st \in {"pending", "succeeded"} /\ outside_amount > 0

\* Nobody asked for it here: recorded as OUTSIDE_APP, the platform absorbs it.
_record_outside_app ==
  /\ wk.pc = "unknown" /\ PaymentFree /\ recordable
  /\ LET row == [status |-> "APPROVED", amount |-> outside_amount, fault |-> FALSE, by |-> Nobody, signer |-> Nobody]
     IN  db' = apply_provider_refund([db EXCEPT !.refund[wk.id] = row], wk.id, wk.view.st)
  /\ wk' = Idle
  /\ UNCHANGED <<prov, bank, tx>>

\* The event raises (an index, the payment table) or is ignored.
webhook_refused ==
  /\ PaymentFree
  /\ \/ wk.pc = "found" /\ unbookable
     \/ wk.pc = "unknown" /\ ~recordable
  /\ wk' = Idle
  /\ UNCHANGED <<db, prov, bank, tx>>

webhook_crashes ==
  /\ wk.pc # "idle"
  /\ wk' = Idle
  /\ UNCHANGED <<db, prov, bank, tx>>

-------------------------------------------------------------------------------
(* Chargebacks.                                                            *)

dispute_fetch(c) ==
  /\ wk.pc = "idle" /\ tx.op # "retry" /\ bank[c].st # "NONE"
  /\ wk' = [pc |-> "dispute", id |-> c, view |-> NoneYet, st |-> bank[c].st]
  /\ UNCHANGED <<db, prov, bank, tx>>

\* Mutant: what was refunded meanwhile is not discounted.
charge_back_all(d, amount, reversed) ==
  LET recovered == IF reversed THEN share(Technician, amount) ELSE 0
  IN  post([d EXCEPT !.pay = "CHARGED_BACK"],
           [CUSTOMER |-> amount, TECHNICIAN_PAYABLE |-> -recovered, REFUNDS |-> -(amount - recovered)])

\* reversed: the provider took the technician's part back; otherwise the platform absorbs it.
charge_back(d, amount, reversed) ==
  LET left == Captured - d.refunded
      lost == IF left < amount THEN left ELSE amount
      recovered == IF reversed THEN share(Technician, lost) ELSE 0
      e == [d EXCEPT !.pay = "CHARGED_BACK"]
  IN  IF lost <= 0 THEN e
      ELSE post(e, [CUSTOMER |-> lost, TECHNICIAN_PAYABLE |-> -recovered, REFUNDS |-> -(lost - recovered)])

mark_dispute_closed(d) ==
  IF d.refunded >= Captured THEN on_full_refund([d EXCEPT !.pay = "REFUNDED"])
  ELSE [d EXCEPT !.pay = IF d.refunded > 0 THEN "PARTIALLY_REFUNDED" ELSE "PAID"]

sync_from_provider ==
  /\ wk.pc = "dispute" /\ PaymentFree
  /\ LET new == db.dispute[wk.id] = "NONE"
         e == [db EXCEPT !.dispute[wk.id] = wk.st,
                         !.pay = IF new /\ @ \in REFUNDABLE THEN "DISPUTED" ELSE @]
     IN  \/ wk.st \notin {"WON", "LOST"} /\ db' = e
         \/ wk.st \in {"WON", "LOST"} /\ e.pay # "DISPUTED" /\ db' = e
         \/ wk.st = "WON" /\ e.pay = "DISPUTED" /\ db' = mark_dispute_closed(e)
         \/ /\ wk.st = "LOST" /\ e.pay = "DISPUTED"
            /\ \E reversed \in BOOLEAN : db' = charge_back(e, bank[wk.id].amount, reversed)
  /\ wk' = Idle
  /\ UNCHANGED <<prov, bank, tx>>

\* Locks the chargeback only; the provider refuses evidence for a closed one.
submit_evidence(c) ==
  /\ db.dispute[c] = "NEEDS_RESPONSE" /\ bank[c].st \in {"NEEDS_RESPONSE", "UNDER_REVIEW"}
  /\ bank' = [bank EXCEPT ![c].st = "UNDER_REVIEW"]
  /\ db' = [db EXCEPT !.dispute[c] = "UNDER_REVIEW"]
  /\ UNCHANGED <<prov, tx, wk>>

-------------------------------------------------------------------------------
(* The provider and the bank on their own (external).                      *)

provider_refund_moves == {<<"pending", "succeeded">>, <<"pending", "failed">>, <<"succeeded", "reverted">>}

provider_step(r) ==
  \E st \in {"succeeded", "failed", "reverted"} :
    /\ <<prov[r].st, st>> \in provider_refund_moves
    /\ prov' = [prov EXCEPT ![r].st = st]
    /\ UNCHANGED <<db, bank, tx, wk>>

refund_outside_app(r) ==
  \E amount \in Amounts \cap Cents :
    /\ r \in Outside /\ prov[r].st = "none" /\ fits(amount)
    /\ prov' = [prov EXCEPT ![r] = [st |-> "succeeded", amount |-> amount]]
    /\ UNCHANGED <<db, bank, tx, wk>>

open_dispute(c) ==
  /\ bank[c].st = "NONE"
  /\ \E amount \in Contested \cap Cents : bank' = [bank EXCEPT ![c] = [st |-> "NEEDS_RESPONSE", amount |-> amount]]
  /\ UNCHANGED <<db, prov, tx, wk>>

close_dispute(c) ==
  /\ bank[c].st \in {"NEEDS_RESPONSE", "UNDER_REVIEW"}
  /\ \E st \in {"WON", "LOST"} : bank' = [bank EXCEPT ![c].st = st]
  /\ UNCHANGED <<db, prov, tx, wk>>

-------------------------------------------------------------------------------
Init ==
  /\ db = [pay |-> "PAID", refunded |-> 0, order |-> "READY_FOR_REVIEW", review |-> "none",
           refund |-> [r \in All |-> NoRefund], dispute |-> [c \in Disputes |-> "NONE"],
           ledger |-> [a \in Account |->
                         CASE a = "CUSTOMER" -> -Captured [] a = "TECHNICIAN_PAYABLE" -> Technician
                           [] a = "PLATFORM_REVENUE" -> Commission [] a = "VAT_PAYABLE" -> Vat
                           [] a = "TAX_WITHHELD" -> Withholding [] a = "REFUNDS" -> 0]]
  /\ prov = [r \in All |-> NoneYet]
  /\ bank = [c \in Disputes |-> [st |-> "NONE", amount |-> 0]]
  /\ tx = NoTx
  /\ wk = Idle

Refunding ==
  \/ \E r \in Refunds : request_by_client(r) \/ create_refund(r) \/ resolve_partial(r) \/ resolve_full(r)
  \/ \E r \in All : retry_approved(r) \/ reject(r) \/ \E who \in Admins : approve(r, who)
  \/ commit \/ abort

OrderSteps == review \/ dispute \/ resolve_release \/ resolve_full_unpaid

Events ==
  \/ \E r \in All : webhook_fetch(r)
  \/ _find \/ _on_refund \/ _record_outside_app \/ webhook_refused \/ webhook_crashes
  \/ \E c \in Disputes : dispute_fetch(c) \/ submit_evidence(c)
  \/ sync_from_provider

External ==
  \/ \E r \in All : provider_step(r) \/ refund_outside_app(r)
  \/ \E c \in Disputes : open_dispute(c) \/ close_dispute(c)

Next == Refunding \/ OrderSteps \/ Events \/ External

Spec == Init /\ [][Next]_vars

\* A transaction or an event cut short, or a provider that does not answer.
Unlucky ==
  \/ abort
  \/ tx'.op # "none" /\ tx'.ans = "retryable"
  \/ webhook_crashes /\ ~webhook_refused /\ ~_on_refund /\ ~sync_from_provider

\* The worker cycles for ever (process_webhooks, retry_refunds) and delivers the event of every
\* refund that changed; transactions end.  Cut-off work and silence of the provider do not last.
Fairness ==
  /\ WF_vars(commit) /\ WF_vars(webhook_refused)
  /\ SF_vars(_find \/ _on_refund \/ _record_outside_app \/ sync_from_provider)
  /\ \A r \in All : SF_vars(retry_approved(r)) /\ SF_vars(webhook_fetch(r) /\ db.refund[r].status = "PENDING")
  /\ <>[][~Unlucky]_vars

FairSpec == Spec /\ Fairness

-------------------------------------------------------------------------------
(* Properties.                                                             *)

\* Rows, provider and bank records and work in flight keep their types.
TypeOK ==
  /\ db \in Row
  /\ prov \in [All -> ProviderRefund]
  /\ bank \in [Disputes -> [st : DisputeStatus \cup {"NONE"}, amount : Cents]]
  /\ tx \in Tx
  /\ wk \in Job

\* The client is never given back more than was collected, by refunds and chargebacks together,
\* in any order and with any of them repeated.
NeverOverReturned == db.ledger["CUSTOMER"] \in -Captured..0

\* payments.refunded_cents is the sum of the refunds that succeeded: the cap of _succeed never
\* hides a difference.
RefundedIsSum ==
  db.refunded = MapThenSumSet(LAMBDA r : db.refund[r].amount, {r \in All : db.refund[r].status = "SUCCEEDED"})

\* Nobody gives back more than the charge gave them, whatever the roundings of the partial
\* refunds and of the chargeback add up to.
PartiesNeverOwe ==
  \A a \in {"TECHNICIAN_PAYABLE", "PLATFORM_REVENUE", "VAT_PAYABLE", "TAX_WITHHELD"} : db.ledger[a] >= 0

\* A refund booked as succeeded did succeed at the provider (which may still revert it).
BookedIsReturned ==
  \A r \in All : db.refund[r].status = "SUCCEEDED" => prov[r].st \in {"succeeded", "reverted"}

\* Without the signature of someone with REFUNDS_APPROVE_HIGH, finance returns at most the
\* threshold of one payment, however it is split into refunds.
BigRefundsSigned ==
  MapThenSumSet(LAMBDA r : db.refund[r].amount,
                {r \in All : db.refund[r].status = "SUCCEEDED" /\ db.refund[r].by # Nobody
                             /\ db.refund[r].signer \notin High}) <= Threshold

\* Once everything was returned the order can no longer be rated, and a rating is not public.
FullReturnClosesOrder ==
  /\ db.refunded = Captured => db.order \in {"REFUNDED", "CANCELLED"}
  /\ db.order = "REFUNDED" => db.review # "public"

\* A chargeback known to be lost has been booked, unless everything had been refunded.
LostIsChargedBack ==
  \A c \in Disputes : db.dispute[c] = "LOST" => db.pay \in {"CHARGED_BACK", "REFUNDED"}

\* An approved refund is eventually sent or closed, whatever was lost on the way.
ApprovedIsSent == \A r \in All : db.refund[r].status = "APPROVED" ~> db.refund[r].status # "APPROVED"

\* A refund the provider decided is eventually settled here, unless the payment was charged back.
PendingIsSettled ==
  \A r \in All : db.refund[r].status = "PENDING" /\ prov[r].st # "pending"
                  ~> db.refund[r].status # "PENDING" \/ db.pay = "CHARGED_BACK"

\* "The final state is confirmed by the provider": a refund that FAILED here was not paid there.
FailedIsUnpaid == \A r \in All : db.refund[r].status = "FAILED" => prov[r].st # "succeeded"
===============================================================================
